---- MODULE Spec2Model ----
(***************************************************************************)
(* Model of the election-dashboard backend (backend/update_data.py and     *)
(* backend/app.py): the county-name normalizer, the presence-file          *)
(* aggregator with its synthetic fallback, and the files they read and     *)
(* write.                                                                  *)
(*                                                                         *)
(* Strings whose characters the code inspects (county names, station-type  *)
(* tags) are sequences of one-character strings, so that upper() and       *)
(* strip() are computed and not assumed.  A CSV cell is a record           *)
(* [k, v]: k = "num" (v its integer value), "nan" (an empty cell) or       *)
(* "str" (text that is not a number).  Percentages are kept as integers    *)
(* in hundredths of a percent (2 decimals).                                *)
(***************************************************************************)
EXTENDS Integers, Sequences, FiniteSets, TLC

VARIABLES
    presence,    \* the presence source file handed to process_presence_data
    attendance,  \* data/attendance.csv
    now,         \* the wall clock, in seconds (datetime.now())
    last,        \* what the last operation did: its path, log lines, response
    norm,        \* argument and result of the last get_full_county_name call
    presence_now,  \* data/Cluster/presence_now.csv, the input of /clustering
    response,    \* the answer to the last /results, /demographic or /clustering request
    results,     \* data/results.csv
    cycles,      \* how many runs of update_existing_data have finished
    inflight     \* the position of each concurrent update request in its handler

vars == <<presence, attendance, now, last, norm, presence_now, response,
         results, cycles, inflight>>

(***************************************************************************)
(* Bounds of the model.                                                    *)
(***************************************************************************)
MaxRows == 2     \* rows of a presence file
MaxVal == 2      \* largest per-station count
MaxClock == 1    \* seconds the clock can advance
MaxPad == 1      \* blanks put around a raw county name

(***************************************************************************)
(* Strings.                                                                *)
(***************************************************************************)
LowerCase == <<"a","b","c","d","e","f","g","h","i","j","k","l","m","n","o","p","q","r","s","t","u","v","w","x","y","z">>
UpperCase == <<"A","B","C","D","E","F","G","H","I","J","K","L","M","N","O","P","Q","R","S","T","U","V","W","X","Y","Z">>
Whitespace == {" ", "\t"}

\* str.upper(), one character
UpperChar(c) ==
    IF \E i \in 1..Len(LowerCase) : LowerCase[i] = c
    THEN UpperCase[CHOOSE i \in 1..Len(LowerCase) : LowerCase[i] = c]
    ELSE c

\* str.lower(), one character (used to build raw spellings only)
LowerChar(c) ==
    IF \E i \in 1..Len(UpperCase) : UpperCase[i] = c
    THEN LowerCase[CHOOSE i \in 1..Len(UpperCase) : UpperCase[i] = c]
    ELSE c

\* str.upper()
upper(s) == [i \in 1..Len(s) |-> UpperChar(s[i])]

lower(s) == [i \in 1..Len(s) |-> LowerChar(s[i])]

RECURSIVE lstrip(_)
lstrip(s) == IF s # <<>> /\ Head(s) \in Whitespace THEN lstrip(Tail(s)) ELSE s

RECURSIVE rstrip(_)
rstrip(s) ==
    IF s # <<>> /\ s[Len(s)] \in Whitespace
    THEN rstrip(SubSeq(s, 1, Len(s) - 1))
    ELSE s

\* str.strip()
strip(s) == rstrip(lstrip(s))

\* ord(c) for the characters of the model's alphabet
Code(c) ==
    IF c = "\t" THEN 9
    ELSE IF c = " " THEN 32
    ELSE IF c = "-" THEN 45
    ELSE IF \E i \in 1..Len(UpperCase) : UpperCase[i] = c
    THEN 64 + (CHOOSE i \in 1..Len(UpperCase) : UpperCase[i] = c)
    ELSE IF \E i \in 1..Len(LowerCase) : LowerCase[i] = c
    THEN 96 + (CHOOSE i \in 1..Len(LowerCase) : LowerCase[i] = c)
    ELSE 127

\* Python's str <, the order pandas sorts group keys by
RECURSIVE StrLess(_, _)
StrLess(a, b) ==
    IF b = <<>> THEN FALSE
    ELSE IF a = <<>> THEN TRUE
    ELSE IF Head(a) = Head(b) THEN StrLess(Tail(a), Tail(b))
    ELSE Code(Head(a)) < Code(Head(b))

\* the keys of a set of strings in ascending order
RECURSIVE SortedKeys(_)
SortedKeys(S) ==
    IF S = {} THEN <<>>
    ELSE LET m == CHOOSE x \in S : \A y \in S \ {x} : StrLess(x, y)
         IN <<m>> \o SortedKeys(S \ {m})

(***************************************************************************)
(* Counties and the name normalizer.                                       *)
(***************************************************************************)
COUNTIES == <<
    <<"A","l","b","a">>, <<"A","r","a","d">>,
    <<"A","r","g","e","s">>, <<"B","a","c","a","u">>,
    <<"B","i","h","o","r">>, <<"B","i","s","t","r","i","t","a","-","N","a","s","a","u","d">>,
    <<"B","o","t","o","s","a","n","i">>, <<"B","r","a","s","o","v">>,
    <<"B","r","a","i","l","a">>, <<"B","u","z","a","u">>,
    <<"C","a","r","a","s","-","S","e","v","e","r","i","n">>, <<"C","a","l","a","r","a","s","i">>,
    <<"C","l","u","j">>, <<"C","o","n","s","t","a","n","t","a">>,
    <<"C","o","v","a","s","n","a">>, <<"D","a","m","b","o","v","i","t","a">>,
    <<"D","o","l","j">>, <<"G","a","l","a","t","i">>,
    <<"G","i","u","r","g","i","u">>, <<"G","o","r","j">>,
    <<"H","a","r","g","h","i","t","a">>, <<"H","u","n","e","d","o","a","r","a">>,
    <<"I","a","l","o","m","i","t","a">>, <<"I","a","s","i">>,
    <<"I","l","f","o","v">>, <<"M","a","r","a","m","u","r","e","s">>,
    <<"M","e","h","e","d","i","n","t","i">>, <<"M","u","r","e","s">>,
    <<"N","e","a","m","t">>, <<"O","l","t">>,
    <<"P","r","a","h","o","v","a">>, <<"S","a","t","u"," ","M","a","r","e">>,
    <<"S","a","l","a","j">>, <<"S","i","b","i","u">>,
    <<"S","u","c","e","a","v","a">>, <<"T","e","l","e","o","r","m","a","n">>,
    <<"T","i","m","i","s">>, <<"T","u","l","c","e","a">>,
    <<"V","a","s","l","u","i">>, <<"V","a","l","c","e","a">>,
    <<"V","r","a","n","c","e","a">>, <<"B","u","c","h","a","r","e","s","t">> >>

CountySet == {COUNTIES[i] : i \in 1..Len(COUNTIES)}

Bucharest == <<"B","u","c","h","a","r","e","s","t">>
UnknownName == <<"U","n","k","n","o","w","n">>

\* the spellings added to the table after the canonical names
COUNTY_NAME_VARIANTS ==
    (<<"B","U","C","U","R","E","S","T","I">> :> Bucharest)
    @@ (<<"C","A","R","A","S"," ","S","E","V","E","R","I","N">>
            :> <<"C","a","r","a","s","-","S","e","v","e","r","i","n">>)
    @@ (<<"B","I","S","T","R","I","T","A"," ","N","A","S","A","U","D">>
            :> <<"B","i","s","t","r","i","t","a","-","N","a","s","a","u","d">>)
    @@ (<<"S","A","T","U","-","M","A","R","E">> :> <<"S","a","t","u"," ","M","a","r","e">>)

\* {name.upper(): name for name in COUNTIES}, then the added spellings
COUNTY_NAME_MAP ==
    COUNTY_NAME_VARIANTS
    @@ [k \in {upper(c) : c \in CountySet} |-> CHOOSE c \in CountySet : upper(c) = k]

\* A raw name cell: missing (pd.isna) or a string.
NaName == [na |-> TRUE, s |-> <<>>]
Name(s) == [na |-> FALSE, s |-> s]

\* a plausible slip: the table is looked up with the raw spelling, not upper-cased
get_full_county_name_cased(name) ==
    IF name.na THEN UnknownName
    ELSE IF strip(name.s) \in DOMAIN COUNTY_NAME_MAP
         THEN COUNTY_NAME_MAP[strip(name.s)]
         ELSE strip(name.s)

get_full_county_name(name) ==
    IF name.na THEN UnknownName
    ELSE IF strip(upper(name.s)) \in DOMAIN COUNTY_NAME_MAP
         THEN COUNTY_NAME_MAP[strip(upper(name.s))]
         ELSE strip(name.s)

(***************************************************************************)
(* CSV cells and the presence file.                                        *)
(***************************************************************************)
Num(n) == [k |-> "num", v |-> n]
NaN == [k |-> "nan", v |-> 0]
Txt == [k |-> "str", v |-> 0]     \* a cell holding text that is no number
None == NaN                        \* None is written as an empty cell

judet_col == "Judet"
total_voters_col == "Inscrisi pe liste permanente"
votes_cast_col == "LT"
male_age_cols_src == <<"Barbati 18-24", "Barbati 25-34", "Barbati 35-44", "Barbati 45-64", "Barbati 65+">>
female_age_cols_src == <<"Femei 18-24", "Femei 25-34", "Femei 35-44", "Femei 45-64", "Femei 65+">>
age_group_keys == <<"age_18_24", "age_25_34", "age_35_44", "age_45_64", "age_65_plus">>
\* age_group_cols_src[output_key]: the male and the female column of the band
age_group_cols_src(i) == <<male_age_cols_src[i], female_age_cols_src[i]>>
station_type_col == "Mediu"
station_id_col == "Nr sectie de votare"

Bands == 1..Len(male_age_cols_src)

all_age_gender_cols == male_age_cols_src \o female_age_cols_src
required_cols_for_processing ==
    <<judet_col, total_voters_col, votes_cast_col>> \o all_age_gender_cols

Range(f) == {f[i] : i \in DOMAIN f}
AllCols == Range(required_cols_for_processing) \cup {station_type_col, station_id_col}

(* A row of the presence file.  Judet and Mediu are name cells, the       *)
(* others are cells; M and F hold the five age bands of each gender.      *)
MkRow(j, tv, vc, M, F, mediu, sid) ==
    [Judet |-> j, tv |-> tv, vc |-> vc, M |-> M, F |-> F, Mediu |-> mediu, sid |-> sid]

\* df[col] at one row, for the numeric columns
CellOf(r, col) ==
    IF col = total_voters_col THEN r.tv
    ELSE IF col = votes_cast_col THEN r.vc
    ELSE IF col = station_id_col THEN r.sid
    ELSE IF \E i \in Bands : male_age_cols_src[i] = col
    THEN r.M[CHOOSE i \in Bands : male_age_cols_src[i] = col]
    ELSE r.F[CHOOSE i \in Bands : female_age_cols_src[i] = col]

AbsentFile == [state |-> "absent", cols |-> {}, rows |-> <<>>]
EmptyFile == [state |-> "empty", cols |-> {}, rows |-> <<>>]
CsvFile(cols, rows) == [state |-> "ok", cols |-> cols, rows |-> rows]

(***************************************************************************)
(* Arithmetic helpers.                                                     *)
(***************************************************************************)
\* round() of the non-negative quotient num/den: to nearest, ties to even
RoundHalfEven(num, den) ==
    LET q == num \div den
        r == num % den
    IN IF 2 * r < den THEN q
       ELSE IF 2 * r > den THEN q + 1
       ELSE IF q % 2 = 0 THEN q ELSE q + 1

(* a * b as quotient and remainder by den, for a, b >= 0 and den > 0,     *)
(* summed up bit by bit of b so that no product leaves the range of the   *)
(* integers; Python and numpy compute these quotients in 64 bits.          *)
RECURSIVE MulDiv(_, _, _)
MulDivStep(h, a, bit, den) ==
    [q |-> 2 * h.q + (2 * h.r + bit * a) \div den, r |-> (2 * h.r + bit * a) % den]
MulDiv(a, b, den) ==
    IF b = 0 THEN [q |-> 0, r |-> 0]
    ELSE MulDivStep(MulDiv(a, b \div 2, den), a, b % 2, den)

\* round(a * b / den): to nearest, ties to even
RoundQuotientOf(d, den) ==
    IF 2 * d.r < den THEN d.q
    ELSE IF 2 * d.r > den THEN d.q + 1
    ELSE IF d.q % 2 = 0 THEN d.q ELSE d.q + 1
RoundQuotient(a, b, den) == RoundQuotientOf(MulDiv(a, b, den), den)

\* int() of the non-negative quotient num/den
IntDiv(num, den) == num \div den

RECURSIVE Pow10(_)
Pow10(n) == IF n = 0 THEN 1 ELSE 10 * Pow10(n - 1)

\* len(str(n)) for n >= 0
RECURSIVE DecLen(_)
DecLen(n) == IF n < 10 THEN 1 ELSE 1 + DecLen(n \div 10)

Max(a, b) == IF a >= b THEN a ELSE b

(***************************************************************************)
(* Column sums.                                                            *)
(***************************************************************************)
\* read_csv keeps a column as text (dtype object) when a cell is no number
IsObjectColumn(df, col) ==
    \E i \in 1..Len(df.rows) : CellOf(df.rows[i], col).k = "str"

\* sum of the numeric cells of a column of rows (missing cells skipped)
RECURSIVE NumericSum(_, _)
NumericSum(rows, col) ==
    IF rows = <<>> THEN 0
    ELSE LET c == CellOf(Head(rows), col)
         IN (IF c.k = "num" THEN c.v ELSE 0) + NumericSum(Tail(rows), col)

\* the text cells of a column joined, read as a decimal number
RECURSIVE ConcatDigits(_, _)
ConcatDigits(rows, col) ==
    IF rows = <<>> THEN 0
    ELSE LET c == CellOf(rows[Len(rows)], col)
             front == ConcatDigits(SubSeq(rows, 1, Len(rows) - 1), col)
         IN front * Pow10(DecLen(c.v)) + c.v

(* county_df[col].sum().  A numeric column sums its values and skips the  *)
(* missing ones.  In a text column the cells are str: a group of missing  *)
(* cells sums to 0, a group of str cells is joined to one str, and a      *)
(* group mixing both raises TypeError (0 + str).                          *)
series_sum(df, county_df, col) ==
    LET cells == {CellOf(county_df[i], col) : i \in 1..Len(county_df)}
    IN IF ~IsObjectColumn(df, col)
       THEN [t |-> "num", v |-> NumericSum(county_df, col), digits |-> TRUE]
       ELSE IF \A c \in cells : c.k = "nan"
       THEN [t |-> "num", v |-> 0, digits |-> TRUE]
       ELSE IF \E c \in cells : c.k = "nan"
       THEN [t |-> "raise", v |-> 0, digits |-> FALSE]
       ELSE [t |-> "str",
             v |-> IF \A c \in cells : c.k = "num" THEN ConcatDigits(county_df, col) ELSE 0,
             digits |-> \A c \in cells : c.k = "num"]

\* a plausible slip: only the first of the listed columns is summed
safe_sum_first_only(county_df, cols_to_sum) ==
    Num(NumericSum(county_df, Head(cols_to_sum)))

(* safe_sum_multiple: pd.to_numeric(errors='coerce') turns text that is   *)
(* no number into a missing value, dropna() drops it, the rest is summed  *)
(* over every listed column; the total is None only if it is not a number.*)
RECURSIVE SumColumns(_, _)
SumColumns(county_df, cols_to_sum) ==
    IF cols_to_sum = <<>> THEN 0
    ELSE NumericSum(county_df, Head(cols_to_sum)) + SumColumns(county_df, Tail(cols_to_sum))

safe_sum_multiple(county_df, cols_to_sum) ==
    LET total == SumColumns(county_df, cols_to_sum)
    IN IF total \in Int THEN Num(total) ELSE None

(***************************************************************************)
(* Grouping by full county name.                                           *)
(***************************************************************************)
\* df['Judet_Full'] = df[judet_col].apply(get_full_county_name): every row gets the column
with_Judet_Full(df) ==
    [df EXCEPT !.rows =
        [i \in 1..Len(df.rows) |->
            LET r == df.rows[i]
            IN [Judet |-> r.Judet, Judet_Full |-> get_full_county_name(r.Judet),
                tv |-> r.tv, vc |-> r.vc, M |-> r.M, F |-> r.F,
                Mediu |-> r.Mediu, sid |-> r.sid]]]

\* the keys of df.groupby('Judet_Full'), in the order the loop visits them
GroupKeys(df) == SortedKeys({df.rows[i].Judet_Full : i \in 1..Len(df.rows)})

\* county_df: the rows of one group, in file order
RECURSIVE GroupRows(_, _)
GroupRows(rows, key) ==
    IF rows = <<>> THEN <<>>
    ELSE (IF Head(rows).Judet_Full = key THEN <<Head(rows)>> ELSE <<>>)
         \o GroupRows(Tail(rows), key)

\* a plausible slip: no group is skipped
IsSkipped_never(county_full_name) == FALSE

\* if not county_full_name or county_full_name == "Unknown": continue
IsSkipped(county_full_name) ==
    county_full_name = <<>> \/ county_full_name = UnknownName

(***************************************************************************)
(* One county entry.                                                       *)
(***************************************************************************)
\* .astype(str) of a station-type cell: a missing cell becomes 'nan'
astype_str(cell) == IF cell.na THEN <<"n","a","n">> ELSE cell.s

\* station_types = county_df[station_type_col].astype(str).str.upper().fillna('UNKNOWN')
station_types(county_df) == [i \in 1..Len(county_df) |-> upper(astype_str(county_df[i].Mediu))]

\* a plausible slip: the rows are counted, not the distinct station identifiers
count_stations(county_df, tag) ==
    Cardinality({i \in 1..Len(county_df) :
                    station_types(county_df)[i] = tag /\ county_df[i].sid # NaN})

\* county_df.loc[station_types == tag, station_id_col].nunique(): missing ids are not counted
nunique_stations(county_df, tag) ==
    Cardinality({county_df[i].sid : i \in {j \in 1..Len(county_df) : station_types(county_df)[j] = tag}}
                \ {NaN})

(* The urban/rural station step.  fault says where the step's own try     *)
(* block raised: "none", "types" (before urban_stations is assigned) or   *)
(* "rural" (after it); the except clause prints a warning and goes on.    *)
station_counts(df, county_df, fault) ==
    LET urban_stations == nunique_stations(county_df, <<"U">>)
        rural_stations == nunique_stations(county_df, <<"R">>)
    IN IF station_type_col \in df.cols /\ station_id_col \in df.cols
       THEN IF fault = "types"
            THEN [urban_stations |-> None, rural_stations |-> None, warned |-> TRUE]
            ELSE IF fault = "rural"
            THEN [urban_stations |-> Num(urban_stations), rural_stations |-> None, warned |-> TRUE]
            ELSE [urban_stations |-> Num(urban_stations),
                  rural_stations |-> Num(rural_stations), warned |-> FALSE]
       ELSE [urban_stations |-> None, rural_stations |-> None, warned |-> FALSE]

\* a plausible slip: the percentage is cut to 2 decimals, not rounded
attendance_percentage_truncated(votes_cast, total_voters) ==
    IF total_voters > 0 THEN (votes_cast * 10000) \div total_voters ELSE 0

\* a plausible slip: the quotient is taken the wrong way round
attendance_percentage_inverted(votes_cast, total_voters) ==
    IF votes_cast > 0 THEN RoundHalfEven(total_voters * 10000, votes_cast) ELSE 0

\* (votes_cast / total_voters * 100) if total_voters > 0 else 0, then round(.., 2)
attendance_percentage(votes_cast, total_voters) ==
    IF total_voters > 0 THEN RoundQuotient(votes_cast, 10000, total_voters) ELSE 0

\* a plausible slip: a group that fails is passed over and the run goes on
entry_raises_never(df, county_df) == FALSE

(* Does the body of the loop raise for this group (outside the station    *)
(* step)?  .sum() of a mixed text column, str > 0, str / number, and      *)
(* int() of a str that is no number all do.                               *)
entry_raises(df, county_df) ==
    LET total_voters == series_sum(df, county_df, total_voters_col)
        votes_cast == series_sum(df, county_df, votes_cast_col)
    IN \/ total_voters.t # "num"
       \/ votes_cast.t = "raise"
       \/ votes_cast.t = "str" /\ (total_voters.v > 0 \/ ~votes_cast.digits)

county_entry(df, county_full_name, current_time, fault) ==
    LET county_df == GroupRows(df.rows, county_full_name)
        total_voters == series_sum(df, county_df, total_voters_col)
        votes_cast == series_sum(df, county_df, votes_cast_col)
        st == station_counts(df, county_df, fault)
        age(i) == safe_sum_multiple(county_df, age_group_cols_src(i))
    IN [county |-> county_full_name,
        total_voters |-> Num(total_voters.v),
        votes_cast |-> Num(votes_cast.v),
        attendance_percentage |->
            Num(IF votes_cast.t = "num"
                THEN attendance_percentage(votes_cast.v, total_voters.v) ELSE 0),
        male_voters |-> safe_sum_multiple(county_df, male_age_cols_src),
        female_voters |-> safe_sum_multiple(county_df, female_age_cols_src),
        age_18_24 |-> age(1),
        age_25_34 |-> age(2),
        age_35_44 |-> age(3),
        age_45_64 |-> age(4),
        age_65_plus |-> age(5),
        urban_stations |-> st.urban_stations,
        rural_stations |-> st.rural_stations,
        timestamp |-> current_time]

(***************************************************************************)
(* The random data generator.  A draw holds the outcome of the random      *)
(* calls, attendance_pct and the ratios in whole per cent; the same draw   *)
(* is used for every county.                                               *)
(***************************************************************************)
DrawLo == [total_voters |-> 300000, attendance_pct |-> 25, male_ratio |-> 45,
           r_18_24 |-> 5, r_25_34 |-> 15, r_35_44 |-> 15, r_45_64 |-> 25,
           urban_stations |-> 20, rural_stations |-> 10]
DrawHi == [total_voters |-> 2000000, attendance_pct |-> 60, male_ratio |-> 55,
           r_18_24 |-> 15, r_25_34 |-> 25, r_35_44 |-> 25, r_45_64 |-> 35,
           urban_stations |-> 100, rural_stations |-> 50]
Draws == {DrawLo, DrawHi}

random_entry(county, d, current_time) ==
    LET votes_cast == IntDiv(d.total_voters * d.attendance_pct, 100)
        male_voters == IntDiv(votes_cast * d.male_ratio, 100)
        age_18_24 == IntDiv(votes_cast * d.r_18_24, 100)
        age_25_34 == IntDiv(votes_cast * d.r_25_34, 100)
        age_35_44 == IntDiv(votes_cast * d.r_35_44, 100)
        age_45_64 == IntDiv(votes_cast * d.r_45_64, 100)
    IN [county |-> county,
        total_voters |-> Num(d.total_voters),
        votes_cast |-> Num(votes_cast),
        attendance_percentage |-> Num(d.attendance_pct * 100),
        male_voters |-> Num(male_voters),
        female_voters |-> Num(votes_cast - male_voters),
        age_18_24 |-> Num(age_18_24),
        age_25_34 |-> Num(age_25_34),
        age_35_44 |-> Num(age_35_44),
        age_45_64 |-> Num(age_45_64),
        age_65_plus |-> Num(Max(0, votes_cast - age_18_24 - age_25_34 - age_35_44 - age_45_64)),
        urban_stations |-> Num(d.urban_stations),
        rural_stations |-> Num(d.rural_stations),
        timestamp |-> current_time]

AbsentTable == [exists |-> FALSE, rows |-> <<>>]
Table(rows) == [exists |-> TRUE, rows |-> rows]
\* a file that is there and that pd.read_csv cannot parse (no bytes in it)
UnreadableTable == [exists |-> TRUE, rows |-> <<>>, unreadable |-> TRUE]
is_unreadable(t) == "unreadable" \in DOMAIN t

\* generate_attendance_data(): one random row per county, written to attendance.csv
generate_attendance_data(d, current_time) ==
    Table([i \in 1..Len(COUNTIES) |-> random_entry(COUNTIES[i], d, current_time)])

(***************************************************************************)
(* process_presence_data.                                                  *)
(***************************************************************************)
\* where the station step of which group raises, as chosen by the environment
NoFault == [county |-> <<>>, step |-> "none"]
FaultOf(f, county_full_name) == IF f.county = county_full_name THEN f.step ELSE "none"

missing_cols(df) == {c \in Range(required_cols_for_processing) : c \notin df.cols}

\* the groups the loop does not skip, in the order it visits them
RECURSIVE ValidKeys(_)
ValidKeys(keys) ==
    IF keys = <<>> THEN <<>>
    ELSE (IF IsSkipped(Head(keys)) THEN <<>> ELSE <<Head(keys)>>) \o ValidKeys(Tail(keys))

\* the station faults that can show in a run over these groups
Faults(df, valid) ==
    {NoFault} \cup
    (IF station_type_col \in df.cols /\ station_id_col \in df.cols
     THEN {[county |-> k, step |-> s] : k \in Range(valid), s \in {"types", "rural"}}
     ELSE {})

\* the fallback, return generate_attendance_data(): one outcome for each random draw;
\* skipped holds what was logged before it
Fallback(path, skipped, current_time) ==
    {[attendance |-> generate_attendance_data(d, current_time), path |-> path,
      skipped |-> skipped, warned |-> {},
      ret |-> generate_attendance_data(d, current_time).rows] : d \in Draws}

(* The whole function, as the set of its possible outcomes: one for each  *)
(* random draw of a fallback, one for each station fault of a run that    *)
(* saves.  old is attendance.csv before the call.  An outcome holds       *)
(* attendance.csv after the call, the path taken, the names logged as     *)
(* skipped and as warned about, and the rows returned.                    *)
process_presence_data(source_file, old, current_time) ==
    IF source_file.state = "absent" THEN Fallback("missing_file", {}, current_time)
    ELSE IF source_file.state = "empty" THEN Fallback("empty_file", {}, current_time)
    ELSE IF missing_cols(source_file) # {} THEN Fallback("missing_cols", {}, current_time)
    ELSE
      LET df == with_Judet_Full(source_file)
          keys == GroupKeys(df)
          valid == ValidKeys(keys)
          county_data(f) == [i \in 1..Len(valid) |->
                                county_entry(df, valid[i], current_time, FaultOf(f, valid[i]))]
          raising == {k \in Range(valid) : entry_raises(df, GroupRows(df.rows, k))}
      IN IF raising # {}
         THEN Fallback("exception",
                       {k \in Range(keys) : IsSkipped(k) /\ \A x \in raising : StrLess(k, x)},
                       current_time)
         ELSE IF valid = <<>>
         THEN {[attendance |-> old, path |-> "no_valid",
                skipped |-> {k \in Range(keys) : IsSkipped(k)}, warned |-> {}, ret |-> <<>>]}
         ELSE {[attendance |-> Table(county_data(f)), path |-> "saved",
                skipped |-> {k \in Range(keys) : IsSkipped(k)},
                warned |-> IF f = NoFault THEN {} ELSE {f.county},
                ret |-> county_data(f)] : f \in Faults(df, valid)}

(***************************************************************************)
(* State and actions.                                                      *)
(***************************************************************************)
NoOp == [op |-> "none", path |-> "none", skipped |-> {}, warned |-> {},
         ret |-> <<>>, status |-> 0]
NoCall == [called |-> FALSE, arg |-> NaName, ret |-> <<>>]
NoResponse == [route |-> "none", status |-> 0]

\* the requests to POST /trigger/update that can run at the same time
Procs == {1, 2}
NoRequest == [pc |-> "idle", kind |-> "none", current_time |-> 0, df |-> AbsentTable,
              seen |-> AbsentTable, path |-> "none"]
Idle == [p \in Procs |-> NoRequest]

\* time passes
Tick ==
    /\ now < MaxClock
    /\ now' = now + 1
    /\ UNCHANGED <<presence, attendance, last, norm, presence_now, response, results, cycles, inflight>>

\* a run of process_presence_data(source_file)
ProcessPresenceData ==
    \E r \in process_presence_data(presence, attendance, now) :
           /\ attendance' = r.attendance
           /\ last' = [op |-> "process_presence_data", path |-> r.path,
                       skipped |-> r.skipped, warned |-> r.warned, ret |-> r.ret,
                       status |-> 0]
           /\ UNCHANGED <<presence, now, norm, presence_now, response, results, cycles, inflight>>

\* a direct call of generate_attendance_data() (trigger_update, --fresh)
GenerateAttendanceData ==
    \E d \in Draws :
        \E t \in {generate_attendance_data(d, now)} :
           /\ attendance' = t
           /\ last' = [op |-> "generate_attendance_data", path |-> "generated",
                       skipped |-> {}, warned |-> {}, ret |-> t.rows,
                       status |-> 0]
           /\ UNCHANGED <<presence, now, norm, presence_now, response, results, cycles, inflight>>

\* attendance_data[0]['timestamp'] if there is a first row with one, else "Unknown"
last_update(data) ==
    IF data # <<>> /\ "timestamp" \in DOMAIN data[1] THEN data[1]["timestamp"] ELSE "Unknown"

(* GET /attendance.  Without attendance.csv the presence file is          *)
(* processed if there is one, else the answer is 404; then attendance.csv *)
(* is read, which raises if it still does not exist, and any exception    *)
(* is answered with 500.                                                  *)
GetAttendance ==
    \E r \in process_presence_data(presence, attendance, now) :
        LET run == ~attendance.exists /\ presence.state # "absent"
            csv == IF run THEN r.attendance ELSE attendance
            status == IF ~attendance.exists /\ presence.state = "absent" THEN 404
                      ELSE IF ~csv.exists \/ is_unreadable(csv) THEN 500
                      ELSE 200
        IN /\ attendance' = csv
           /\ last' = [op |-> "get_attendance",
                       path |-> IF run THEN r.path ELSE "none",
                       skipped |-> IF run THEN r.skipped ELSE {},
                       warned |-> IF run THEN r.warned ELSE {},
                       ret |-> IF status = 200 THEN csv.rows ELSE <<>>,
                       status |-> status,
                       last_update |-> IF status = 200 THEN last_update(csv.rows)
                                       ELSE "Unknown"]
           /\ UNCHANGED <<presence, now, norm, presence_now, response, results, cycles, inflight>>

\* a call of get_full_county_name(name)
GetFullCountyName(names) ==
    \E name \in names :
        /\ norm' = [called |-> TRUE, arg |-> name, ret |-> get_full_county_name(name)]
        /\ UNCHANGED <<presence, attendance, now, last, presence_now, response, results, cycles, inflight>>

(***************************************************************************)
(* Inputs.                                                                 *)
(***************************************************************************)
\* the sequences over S of at most n elements
SeqsUpTo(S, n) == UNION {[1..k -> S] : k \in 0..n}

Alba == <<"A","l","b","a">>
Xyzabc == <<"X","y","z","a","b","c">>
BUCURESTI == <<"B","U","C","U","R","E","S","T","I">>
Blank == <<" ">>

Zero5 == [i \in Bands |-> Num(0)]
TagU == Name(<<"U">>)
Counts == {Num(n) : n \in 0..MaxVal}

RECURSIVE Pad(_, _)
Pad(s, n) == IF n = 0 THEN s ELSE <<" ">> \o Pad(s, n - 1) \o <<" ">>

\* raw spellings of a name: as is, upper case, lower case, each with blanks around it
Spellings(s) == {Pad(x, n) : x \in {s, upper(s), lower(s)}, n \in 0..MaxPad}

\* the raw name cells the normalizer is called with
RawNames ==
    {NaName}
    \cup {Name(x) : x \in UNION {Spellings(k) : k \in CountySet \cup DOMAIN COUNTY_NAME_VARIANTS}}
    \cup {Name(x) : x \in Spellings(Xyzabc) \cup Spellings(UnknownName)
                          \cup {Blank, <<"A","l","b","a"," ","I","u","l","i","a">>}}

\* files whose rows differ in the registered and the cast counts of one county
TotalsRows ==
    {MkRow(Name(Alba), tv, vc, Zero5, Zero5, TagU, Num(1)) :
        tv \in Counts \cup {NaN}, vc \in {NaN, Num(1), Num(MaxVal)}}

\* files with text in the count columns, in a county and in a nameless row
TextRows ==
    {MkRow(j, tv, vc, Zero5, Zero5, TagU, Num(1)) :
        j \in {Name(Alba), NaName}, tv \in {Num(0), Num(1), Txt, NaN}, vc \in {Num(1), Txt}}

\* files whose rows differ in the raw county name
NameRows ==
    {MkRow(j, tv, Num(1), Zero5, Zero5, TagU, Num(1)) :
        j \in {NaName, Name(BUCURESTI), Name(<<" ">> \o lower(Bucharest)), Name(Xyzabc),
               Name(Blank), Name(UnknownName), Name(Alba)},
        tv \in {Num(1), Num(2)}}

\* files whose rows differ in the gender and age-band cells: every band of a gender
\* alike, or one count in the first or the last band of one gender
DemoVals == {NaN, Txt, Num(MaxVal)}
DemoRows ==
    {MkRow(Name(Alba), Num(1), Num(1), [i \in Bands |-> m], [i \in Bands |-> w],
           TagU, Num(1)) : m \in DemoVals, w \in DemoVals}
    \cup {MkRow(Name(Alba), Num(1), Num(1),
                [i \in Bands |-> IF i = b /\ male THEN Num(1) ELSE Num(0)],
                [i \in Bands |-> IF i = b /\ ~male THEN Num(1) ELSE Num(0)],
                TagU, Num(1)) : b \in {1, Len(male_age_cols_src)}, male \in BOOLEAN}

\* files whose rows differ in the station type and the station identifier
StationRows ==
    {MkRow(Name(Alba), Num(1), Num(1), Zero5, Zero5, tag, sid) :
        tag \in {NaName, Name(<<"U">>), Name(<<"u">>), Name(<<"R">>), Name(<<"X">>)},
        sid \in {NaN, Num(1), Num(2)}}

DefaultRow == MkRow(Name(Alba), Num(1), Num(1), Zero5, Zero5, TagU, Num(1))
RuralRow == MkRow(Name(Alba), Num(1), Num(1), Zero5, Zero5, Name(<<"R">>), Num(2))

\* no file, an empty file, and files that lack one of the required columns
SchemaFiles ==
    {AbsentFile, EmptyFile}
    \cup {CsvFile(AllCols \ {c}, <<DefaultRow>>) : c \in Range(required_cols_for_processing)}

Sources ==
    SchemaFiles
    \cup {CsvFile(AllCols, rows) :
             rows \in SeqsUpTo(TotalsRows, MaxRows) \cup SeqsUpTo(TextRows, MaxRows)
                      \cup SeqsUpTo(NameRows, MaxRows) \cup SeqsUpTo(DemoRows, MaxRows)
                      \cup SeqsUpTo(StationRows, MaxRows)}
    \cup {CsvFile(AllCols \ drop, rows) :
             drop \in (SUBSET {station_type_col, station_id_col}) \ {{}},
             rows \in SeqsUpTo({DefaultRow, RuralRow}, MaxRows)}

\* one file for each way a run can go
LifeSources ==
    {AbsentFile, EmptyFile,
     CsvFile(AllCols \ {votes_cast_col}, <<DefaultRow>>),
     CsvFile(AllCols, <<>>),
     CsvFile(AllCols, <<MkRow(NaName, Num(1), Num(1), Zero5, Zero5, TagU, Num(1))>>),
     CsvFile(AllCols, <<MkRow(Name(Alba), Txt, Num(1), Zero5, Zero5, TagU, Num(1))>>),
     CsvFile(AllCols, <<DefaultRow>>),
     CsvFile(AllCols, <<DefaultRow, MkRow(Name(BUCURESTI), Num(2), Num(1), Zero5, Zero5, TagU, Num(2))>>)}

(***************************************************************************)
(* Specifications.                                                         *)
(***************************************************************************)
InitFiles ==
    /\ attendance = AbsentTable
    /\ now = 0
    /\ last = NoOp
    /\ norm = NoCall
    /\ presence_now = AbsentFile
    /\ response = NoResponse
    /\ results = AbsentTable
    /\ cycles = 0
    /\ inflight = Idle

\* the aggregator on every presence file of the bounds
Init == InitFiles /\ presence \in Sources
Next == ProcessPresenceData
Spec == Init /\ [][Next]_vars

\* the files over time: runs, direct generation, requests, the clock
InitLife == InitFiles /\ presence \in LifeSources
NextLife == Tick \/ ProcessPresenceData \/ GenerateAttendanceData \/ GetAttendance
SpecLife == InitLife /\ [][NextLife]_vars

\* the name normalizer on every raw spelling
InitNames == InitFiles /\ presence = AbsentFile
NextNames == GetFullCountyName(RawNames)
SpecNames == InitNames /\ [][NextNames]_vars

(***************************************************************************)
(* GET /demographic (app.py get_demographic).  A row of attendance.csv is  *)
(* a function from column names to cells, a direct urban/rural column     *)
(* being one more field of the rows.  Percentages rounded to 1 decimal    *)
(* are integers in tenths of a percent; the inputs of the bounds have no  *)
(* quotient that lies halfway between two tenths.                         *)
(***************************************************************************)
basic_demographic_columns ==
    <<"male_voters", "female_voters", "age_18_24", "age_25_34", "age_35_44",
      "age_45_64", "age_65_plus", "urban_stations", "rural_stations">>

urban_rural_columns ==
    <<"urban_votes", "rural_votes",
      "urban_male_voters", "urban_female_voters",
      "rural_male_voters", "rural_female_voters",
      "urban_age_18_24", "urban_age_25_34", "urban_age_35_44",
      "urban_age_45_64", "urban_age_65_plus",
      "rural_age_18_24", "rural_age_25_34", "rural_age_35_44",
      "rural_age_45_64", "rural_age_65_plus">>

\* the header written by process_presence_data and generate_attendance_data
cols_order ==
    {"county", "total_voters", "votes_cast", "attendance_percentage",
     "male_voters", "female_voters", "age_18_24", "age_25_34", "age_35_44",
     "age_45_64", "age_65_plus", "urban_stations", "rural_stations", "timestamp"}

\* df.columns: the fields of the rows; a table without rows has the written header
columns(df) == IF df.rows = <<>> THEN cols_order ELSE DOMAIN df.rows[1]

\* df[col].sum(): missing cells are skipped
RECURSIVE column_sum(_, _)
column_sum(rows, col) ==
    IF rows = <<>> THEN 0
    ELSE (IF Head(rows)[col].k = "num" THEN Head(rows)[col].v ELSE 0)
         + column_sum(Tail(rows), col)

\* a plausible slip: the estimate is cut, not rounded
estimate_votes_floor(votes_cast, stations, total_stations) ==
    IF votes_cast = NaN \/ stations = NaN \/ total_stations = NaN THEN 0
    ELSE IF total_stations.v = 0 THEN 0
    ELSE (votes_cast.v * stations.v) \div total_stations.v

\* a plausible slip: the share of the stations is not applied
estimate_votes_whole(votes_cast, stations, total_stations) ==
    IF votes_cast = NaN \/ stations = NaN \/ total_stations = NaN THEN 0
    ELSE IF total_stations.v = 0 THEN 0
    ELSE votes_cast.v

(* (df['votes_cast'] * df[stations] / total_stations).round().fillna(0)    *)
(* .astype(int) at one row: a missing operand and 0/0 give NaN, which     *)
(* fillna turns into 0; counts are not negative, so the numerator is 0    *)
(* whenever the denominator is.                                           *)
estimate_votes(votes_cast, stations, total_stations) ==
    IF votes_cast = NaN \/ stations = NaN \/ total_stations = NaN THEN 0
    ELSE IF total_stations.v = 0 THEN 0
    ELSE RoundQuotient(votes_cast.v, stations.v, total_stations.v)

\* (df[count] * df[part_votes] / df['votes_cast']).round().fillna(0).astype(int) at one row
estimate_share(count, part_votes, votes_cast) ==
    IF count = NaN \/ votes_cast = NaN THEN 0
    ELSE IF votes_cast.v = 0 THEN 0
    ELSE RoundQuotient(count.v, part_votes, votes_cast.v)

\* total_stations = df['urban_stations'] + df['rural_stations'] at one row
total_stations(row) ==
    IF row["urban_stations"] = NaN \/ row["rural_stations"] = NaN THEN NaN
    ELSE Num(row["urban_stations"].v + row["rural_stations"].v)

\* the sixteen estimated columns of one row
estimated_columns(row) ==
    LET urban_votes == estimate_votes(row["votes_cast"], row["urban_stations"], total_stations(row))
        rural_votes == estimate_votes(row["votes_cast"], row["rural_stations"], total_stations(row))
        part(scope) == IF scope = "urban" THEN urban_votes ELSE rural_votes
    IN [c \in {"urban_votes"} |-> Num(urban_votes)]
       @@ [c \in {"rural_votes"} |-> Num(rural_votes)]
       @@ [c \in {"urban_male_voters"} |-> Num(estimate_share(row["male_voters"], urban_votes, row["votes_cast"]))]
       @@ [c \in {"urban_female_voters"} |-> Num(estimate_share(row["female_voters"], urban_votes, row["votes_cast"]))]
       @@ [c \in {"rural_male_voters"} |-> Num(estimate_share(row["male_voters"], rural_votes, row["votes_cast"]))]
       @@ [c \in {"rural_female_voters"} |-> Num(estimate_share(row["female_voters"], rural_votes, row["votes_cast"]))]
       @@ [c \in {scope \o "_" \o age_group : scope \in {"urban", "rural"},
                                            age_group \in Range(age_group_keys)} |->
             LET scope == IF c \in {"urban_" \o a : a \in Range(age_group_keys)}
                          THEN "urban" ELSE "rural"
                 age_group == CHOOSE a \in Range(age_group_keys) : c = scope \o "_" \o a
             IN Num(estimate_share(row[age_group], part(scope), row["votes_cast"]))]

\* a plausible slip: the estimator runs whatever the table holds
has_urban_rural_data_never(df) == FALSE

\* has_urban_rural_data = all(col in df.columns for col in urban_rural_columns)
has_urban_rural_data(df) == Range(urban_rural_columns) \subseteq columns(df)

\* the table after the estimation step: df[col] = ... replaces or adds each of the sixteen columns
with_urban_rural(df) ==
    IF has_urban_rural_data(df) THEN df.rows
    ELSE [i \in 1..Len(df.rows) |-> estimated_columns(df.rows[i]) @@ df.rows[i]]

\* round(count / total * 100, 1), in tenths of a percent
percentage(count, total) == RoundQuotient(count, 1000, total)

\* the percentage fields of one scope, each with the count it is taken from
scope_fields(prefix) ==
    {<<prefix \o "male_percentage", prefix \o "male_voters">>,
     <<prefix \o "female_percentage", prefix \o "female_voters">>}
    \cup {<<prefix \o a \o "_percentage", prefix \o a>> : a \in Range(age_group_keys)}

split_fields == {<<"urban_percentage", "urban_votes">>, <<"rural_percentage", "rural_votes">>}

\* the fields of fs computed over the denominator total
percentage_fields(d, fs, total) ==
    [f \in {p[1] : p \in fs} |-> percentage(d[(CHOOSE p \in fs : p[1] = f)[2]], total)]

\* a plausible slip: a percentage without votes is given as 0.0, not left out
percentages_zero_filled(d, total_votes) ==
    LET fill(fs, total) == IF total > 0 THEN percentage_fields(d, fs, total)
                           ELSE [f \in {p[1] : p \in fs} |-> 0]
    IN fill(scope_fields("") \cup split_fields, total_votes)
       @@ fill(scope_fields("urban_"), d["urban_votes"])
       @@ fill(scope_fields("rural_"), d["rural_votes"])

(* The percentage block, the same at national and at county granularity:  *)
(* nothing without votes, the urban and the rural fields each under their *)
(* own guard.  has_urban_rural_data is true by then.                      *)
percentages(d, total_votes) ==
    IF total_votes > 0
    THEN percentage_fields(d, scope_fields("") \cup split_fields, total_votes)
         @@ (IF d["urban_votes"] > 0
             THEN percentage_fields(d, scope_fields("urban_"), d["urban_votes"]) ELSE <<>>)
         @@ (IF d["rural_votes"] > 0
             THEN percentage_fields(d, scope_fields("rural_"), d["rural_votes"]) ELSE <<>>)
    ELSE <<>>

count_columns == Range(basic_demographic_columns) \cup Range(urban_rural_columns)

\* a plausible slip: the national count is taken from the first row
national_counts_first_row(rows) ==
    [c \in {"total_votes"} |-> IF rows = <<>> THEN 0 ELSE rows[1]["votes_cast"].v]
    @@ [c \in count_columns |-> IF rows = <<>> THEN 0 ELSE rows[1][c].v]

\* national_totals before the percentages: int(df[col].sum()) of each count column
national_counts(rows) ==
    [c \in {"total_votes"} |-> column_sum(rows, "votes_cast")]
    @@ [c \in count_columns |-> column_sum(rows, c)]

\* county_data before the percentages: int(row[col]) of each count column
county_counts(row) ==
    [c \in {"total_votes"} |-> row["votes_cast"].v]
    @@ [c \in count_columns |-> row[c].v]

\* int(row[col]) raises for a missing cell
int_raises(row) ==
    \E c \in {"votes_cast"} \cup count_columns : row[c] = NaN

\* the numbers of an answer, without its county name
demographic_of(counts) == percentages(counts, counts["total_votes"]) @@ counts

ErrorResponse(route, status, error) ==
    [route |-> route, status |-> status, error |-> error]

\* the whole handler: the response to GET /demographic given attendance.csv
get_demographic(df) ==
    IF ~df.exists
    THEN ErrorResponse("demographic", 404, "Demographic data not available")
    ELSE IF is_unreadable(df)
    THEN ErrorResponse("demographic", 500, "No columns to parse from file")
    ELSE IF ~(Range(basic_demographic_columns) \subseteq columns(df))
    THEN ErrorResponse("demographic", 404, "Basic demographic data columns missing in attendance data")
    ELSE IF ~({"votes_cast", "county", "timestamp"} \subseteq columns(df))
    THEN ErrorResponse("demographic", 500, "KeyError")
    ELSE LET rows == with_urban_rural(df)
         IN IF \E i \in 1..Len(rows) : int_raises(rows[i])
            THEN ErrorResponse("demographic", 500, "cannot convert float NaN to integer")
            ELSE [route |-> "demographic", status |-> 200,
                  estimated |-> ~has_urban_rural_data(df),
                  national |-> demographic_of(national_counts(rows)),
                  counties |-> [i \in 1..Len(rows) |-> demographic_of(county_counts(rows[i]))],
                  names |-> [i \in 1..Len(rows) |-> rows[i]["county"]],
                  last_update |-> IF rows = <<>> THEN "Unknown" ELSE rows[1]["timestamp"],
                  has_urban_rural_data |-> TRUE]

\* GET /demographic
GetDemographic ==
    /\ response' = get_demographic(attendance)
    /\ UNCHANGED <<presence, attendance, now, last, norm, presence_now, results, cycles, inflight>>

(***************************************************************************)
(* Tables for the demographic endpoint.                                    *)
(***************************************************************************)
MaxVotes == 4
MaxStations == 2

\* a row as both writers of attendance.csv lay it out
MkEntry(county, votes_cast, male_voters, ages, urban_stations, rural_stations) ==
    [county |-> county,
     total_voters |-> Num(votes_cast),
     votes_cast |-> Num(votes_cast),
     attendance_percentage |-> Num(IF votes_cast > 0 THEN 10000 ELSE 0),
     male_voters |-> Num(male_voters),
     female_voters |-> Num(votes_cast - male_voters),
     age_18_24 |-> Num(ages[1]),
     age_25_34 |-> Num(ages[2]),
     age_35_44 |-> Num(ages[3]),
     age_45_64 |-> Num(ages[4]),
     age_65_plus |-> Num(ages[5]),
     urban_stations |-> urban_stations,
     rural_stations |-> rural_stations,
     timestamp |-> 0]

\* all voters of a row in two age bands
TwoBands(votes_cast) == <<votes_cast \div 2, 0, 0, 0, votes_cast - votes_cast \div 2>>

StationCells == {Num(n) : n \in 0..MaxStations}

\* votes cast and the men among them
Splits(votes) == {p \in votes \X (0..MaxVotes) : p[2] <= p[1]}

\* one county, every split of its votes and its stations
OneRowTables ==
    {Table(<<MkEntry(Alba, p[1], p[2], TwoBands(p[1]), u, r)>>) :
        p \in Splits(0..MaxVotes), u \in StationCells, r \in StationCells}

\* station counts left null by a presence file without station columns
NullStationTables ==
    {Table(<<MkEntry(Alba, 2, 1, TwoBands(2), u, r)>>) :
        u \in {NaN, Num(1)}, r \in {NaN, Num(1)}} \ {Table(<<MkEntry(Alba, 2, 1, TwoBands(2), Num(1), Num(1))>>)}

Arad == <<"A","r","a","d">>

\* two counties, for the national sums
TwoRowTables ==
    {Table(<<MkEntry(Alba, p[1], p[2], TwoBands(p[1]), Num(u1), Num(1)),
             MkEntry(Arad, v2, v2, TwoBands(v2), Num(0), Num(r2))>>) :
        p \in Splits({0, 3}), u1 \in {0, 1}, v2 \in {0, 1, MaxVotes}, r2 \in {0, MaxStations}}

\* 42 counties of 1000 votes each, 500 men and 500 women
UniformTable ==
    Table([i \in 1..Len(COUNTIES) |->
             MkEntry(COUNTIES[i], 1000, 500, <<200, 200, 200, 200, 200>>, Num(1), Num(1))])

\* direct urban/rural columns: every one of the sixteen, or urban_votes alone
DirectColumns(urban_votes, rural_votes) ==
    [c \in Range(urban_rural_columns) |->
        IF c = "urban_votes" THEN urban_votes
        ELSE IF c = "rural_votes" THEN rural_votes
        ELSE Num(1)]

DirectTables ==
    {Table(<<DirectColumns(uv, rv) @@ MkEntry(Alba, v, v, TwoBands(v), Num(1), Num(1))>>) :
        v \in {0, 2}, uv \in {Num(0), Num(MaxVotes + 3)}, rv \in {Num(0), Num(MaxVotes + 3), NaN}}
    \cup {Table(<<[c \in {"urban_votes"} |-> Num(MaxVotes + 3)]
                   @@ MkEntry(Alba, v, v, TwoBands(v), Num(1), Num(1))>>) : v \in {0, 2}}

\* a row without one of the basic columns
WithoutColumn(row, col) == [c \in DOMAIN row \ {col} |-> row[c]]

SchemaTables ==
    {AbsentTable, Table(<<>>)}
    \cup {Table(<<WithoutColumn(MkEntry(Alba, 1, 1, TwoBands(1), Num(1), Num(1)), c)>>) :
            c \in {"urban_stations", "male_voters", "votes_cast"}}

DemoTables ==
    OneRowTables \cup NullStationTables \cup TwoRowTables \cup {UniformTable}
    \cup DirectTables \cup SchemaTables

\* the demographic endpoint on every table of the bounds
InitDemo ==
    /\ presence = AbsentFile
    /\ attendance \in DemoTables
    /\ now = 0
    /\ last = NoOp
    /\ norm = NoCall
    /\ presence_now = AbsentFile
    /\ response = NoResponse
    /\ results = AbsentTable
    /\ cycles = 0
    /\ inflight = Idle
NextDemo == GetDemographic
SpecDemo == InitDemo /\ [][NextDemo]_vars

(***************************************************************************)
(* GET /clustering (app.py get_clustering).  A feature percentage is kept  *)
(* as the exact fraction num/den.  The numeric libraries are modelled by   *)
(* what the handler relies on: StandardScaler rejects an empty sample,     *)
(* KMeans rejects fewer samples than clusters and gives each sample a      *)
(* label below n_clusters, PCA(n_components=2) rejects fewer than two      *)
(* samples and divides each explained variance by their total, which is   *)
(* 0/0 when all samples are equal.                                         *)
(***************************************************************************)
MaxUnits == 3    \* rows of a clustering input
MaxK == 5        \* largest requested n_clusters

demographic_columns == male_age_cols_src \o female_age_cols_src
registered_col == total_voters_col
lp_col == "LP"
localitate_col == "Localitate"
sectie_col == "Nume sectie de votare"

ClusterCols ==
    {judet_col, localitate_col, sectie_col, registered_col, lp_col}
    \cup Range(demographic_columns)

\* a row of presence_now.csv
MkUnit(j, loc, st, tv, lp, M, F) ==
    [Judet |-> j, Localitate |-> loc, Sectie |-> st, tv |-> tv, LP |-> lp, M |-> M, F |-> F]

\* df[col] at one row, for the summed columns
UnitCell(r, col) ==
    IF col = registered_col THEN r.tv
    ELSE IF col = lp_col THEN r.LP
    ELSE IF \E i \in Bands : male_age_cols_src[i] = col
    THEN r.M[CHOOSE i \in Bands : male_age_cols_src[i] = col]
    ELSE r.F[CHOOSE i \in Bands : female_age_cols_src[i] = col]

\* df[col] at one row, for the grouping columns
UnitKey(r, col) ==
    IF col = judet_col THEN r.Judet
    ELSE IF col = localitate_col THEN r.Localitate
    ELSE r.Sectie

NoClusterDir == [state |-> "nodir", cols |-> {}, rows |-> <<>>]

county_level == <<"c","o","u","n","t","y">>
town_level == <<"t","o","w","n">>
polling_level == <<"p","o","l","l","i","n","g">>

\* request.args.get('level', 'county').lower()
cluster_level_of(level) == IF level.na THEN county_level ELSE lower(level.s)

\* int(request.args.get('n_clusters', 5))
n_clusters_of(n_clusters) == IF n_clusters = NaN THEN 5 ELSE n_clusters.v

group_by_columns(cluster_level) ==
    IF cluster_level = county_level THEN <<judet_col>>
    ELSE IF cluster_level = town_level THEN <<judet_col, localitate_col>>
    ELSE IF cluster_level = polling_level THEN <<judet_col, localitate_col, sectie_col>>
    ELSE <<>>

\* the key of a row; groupby leaves out the rows with a missing key
key_of(r, by) == [i \in 1..Len(by) |-> UnitKey(r, by[i]).s]
has_key(r, by) == \A i \in 1..Len(by) : ~UnitKey(r, by[i]).na

\* the order of key tuples: by the first column, then the next
RECURSIVE KeyLess(_, _)
KeyLess(a, b) ==
    IF a = <<>> THEN FALSE
    ELSE IF Head(a) = Head(b) THEN KeyLess(Tail(a), Tail(b))
    ELSE StrLess(Head(a), Head(b))

RECURSIVE SortedGroupKeys(_)
SortedGroupKeys(S) ==
    IF S = {} THEN <<>>
    ELSE LET m == CHOOSE x \in S : \A y \in S \ {x} : KeyLess(x, y)
         IN <<m>> \o SortedGroupKeys(S \ {m})

\* 'sum' of one column over the rows of a group
RECURSIVE group_sum(_, _, _, _)
group_sum(rows, by, key, col) ==
    IF rows = <<>> THEN 0
    ELSE (IF has_key(Head(rows), by) /\ key_of(Head(rows), by) = key
             /\ UnitCell(Head(rows), col).k = "num"
          THEN UnitCell(Head(rows), col).v ELSE 0)
         + group_sum(Tail(rows), by, key, col)

\* df.groupby(group_by_columns).agg({...: 'sum'}).reset_index()
grouped_df(df, by) ==
    LET keys == SortedGroupKeys({key_of(df.rows[i], by) :
                                    i \in {j \in 1..Len(df.rows) : has_key(df.rows[j], by)}})
    IN [g \in 1..Len(keys) |->
          [key |-> keys[g],
           registered |-> group_sum(df.rows, by, keys[g], registered_col),
           LP |-> group_sum(df.rows, by, keys[g], lp_col),
           counts |-> [c \in Range(demographic_columns) |->
                          group_sum(df.rows, by, keys[g], c)]]]

\* a plausible slip: groups without votes are kept
positive_votes_all(groups) == groups

\* grouped_df[grouped_df['LP'] > 0]
positive_votes(groups) ==
    LET voted(g) == g.LP > 0
    IN SelectSeq(groups, voted)

\* a plausible slip: the count is reduced only when it exceeds the number of groups
adjusted_n_clusters_strict(len, n_clusters) ==
    IF len < n_clusters
    THEN [n_clusters |-> Max(2, len - 1), warned |-> TRUE]
    ELSE [n_clusters |-> n_clusters, warned |-> FALSE]

\* if len(grouped_df) <= n_clusters: n_clusters = max(2, len(grouped_df) - 1), and a warning
adjusted_n_clusters(len, n_clusters) ==
    IF len <= n_clusters
    THEN [n_clusters |-> Max(2, len - 1), warned |-> TRUE]
    ELSE [n_clusters |-> n_clusters, warned |-> FALSE]

Min(a, b) == IF a <= b THEN a ELSE b

\* (grouped_df[col] / grouped_df['LP'] * 100).clip(0, 100), as a fraction
pct(count, lp) == [num |-> Max(0, Min(count * 100, 100 * lp)), den |-> lp]

\* the ten features of a group
features(g) == [c \in Range(demographic_columns) |-> pct(g.counts[c], g.LP)]

\* no two samples differ: the variance of every feature is 0
zero_variance(groups) ==
    \A a, b \in 1..Len(groups), c \in Range(demographic_columns) :
        features(groups[a])[c].num * features(groups[b])[c].den
          = features(groups[b])[c].num * features(groups[a])[c].den

\* pca.explained_variance_ratio_: each explained variance over their sum
explained_variance_ratio(groups) == IF zero_variance(groups) THEN "nan" ELSE "finite"

(* kmeans.fit_predict: a label below n_clusters for each sample.  Two of   *)
(* the labellings stand for all: every sample in cluster 0, and the       *)
(* samples dealt out over the clusters in turn.                           *)
Labellings(n_samples, n_clusters) ==
    {[g \in 1..n_samples |-> 0], [g \in 1..n_samples |-> (g - 1) % n_clusters]}

NoLog == [steps |-> <<>>, warned |-> FALSE, kept |-> {}, n_clusters |-> 0]

Failure(status, error, log) ==
    [route |-> "clustering", status |-> status, error |-> error, log |-> log]

\* a plausible slip: the request goes on when any one of the columns is there
has_demographic_columns_any(df) == Range(demographic_columns) \cap df.cols # {}

\* all(col in df.columns for col in demographic_columns)
has_demographic_columns(df) == Range(demographic_columns) \subseteq df.cols

\* one unit of clustered_data
clustered_unit(g, cluster) ==
    [key |-> g.key,
     total_registered |-> g.registered,
     total_votes |-> g.LP,
     cluster |-> cluster,
     pca_x |-> "finite",
     pca_y |-> "finite",
     demographics |-> g.counts,
     demographics_pct |-> features(g)]

(* The whole handler, as the set of its possible answers, one for each    *)
(* labelling k-means can give.  log holds the steps the handler went      *)
(* through, whether it logged the warning, the groups left after the      *)
(* filter and the cluster count it settled on; the action adds the        *)
(* request to the answer.                                                 *)
get_clustering(df, level, n_clusters_arg) ==
    IF df.state = "nodir"
    THEN {Failure(404, "Cluster data directory not found", NoLog)}
    ELSE IF df.state = "absent"
    THEN {Failure(404, "presence_now.csv file not found in Cluster directory", NoLog)}
    ELSE IF df.state = "empty"
    THEN {Failure(500, "No columns to parse from file", NoLog)}
    ELSE IF ~has_demographic_columns(df)
    THEN {Failure(400, "Required demographic columns missing in presence data", NoLog)}
    ELSE LET cluster_level == cluster_level_of(level)
             by == group_by_columns(cluster_level)
         IN IF by = <<>>
            THEN {Failure(400, "Invalid clustering level", NoLog)}
            ELSE IF ~((Range(by) \cup {registered_col, lp_col} \cup Range(demographic_columns))
                      \subseteq df.cols)
            THEN {Failure(500, "KeyError", NoLog)}
            ELSE
            LET groups == positive_votes(grouped_df(df, by))
                adjusted == adjusted_n_clusters(Len(groups), n_clusters_of(n_clusters_arg))
                n_clusters == adjusted.n_clusters
                log(steps) == [steps |-> steps,
                               warned |-> adjusted.warned,
                               kept |-> {groups[g].key : g \in 1..Len(groups)},
                               n_clusters |-> n_clusters]
            IN IF Len(groups) = 0
               THEN {Failure(500, "Found array with 0 sample(s)",
                             log(<<"group", "filter", "percent">>))}
               ELSE IF Len(groups) < n_clusters
               THEN {Failure(500, "n_samples should be >= n_clusters",
                             log(<<"group", "filter", "percent", "scale">>))}
               ELSE IF Len(groups) < 2
               THEN {Failure(500, "n_components=2 must be between 0 and min(n_samples, n_features)",
                             log(<<"group", "filter", "percent", "scale", "kmeans">>))}
               ELSE {[route |-> "clustering", status |-> 200,
                      cluster_level |-> cluster_level,
                      n_clusters |-> n_clusters,
                      explained_variance_ratio |-> explained_variance_ratio(groups),
                      cluster_centers |-> [c \in 0..(n_clusters - 1) |-> "finite"],
                      clustered_data |-> [g \in 1..Len(groups) |->
                                            clustered_unit(groups[g], labels[g])],
                      log |-> log(<<"group", "filter", "percent", "scale", "kmeans", "pca">>)] :
                     labels \in Labellings(Len(groups), n_clusters)}

\* GET /clustering?level=..&n_clusters=..
GetClustering(levels, counts) ==
    \E level \in levels, n_clusters \in counts :
        \E r \in get_clustering(presence_now, level, n_clusters) :
            /\ response' = [request |-> [level |-> level, n_clusters |-> n_clusters]] @@ r
            /\ UNCHANGED <<presence, attendance, now, last, norm, presence_now, results, cycles, inflight>>

(***************************************************************************)
(* Inputs of the clustering endpoint.                                      *)
(***************************************************************************)
One5 == [i \in Bands |-> IF i = 1 THEN Num(1) ELSE Num(0)]
Three5 == [i \in Bands |-> IF i = 1 THEN Num(3) ELSE Num(0)]
TownA == Name(<<"A","i","u","d">>)
TownB == Name(<<"B","l","a","j">>)
SectieA == Name(<<"S","c","o","a","l","a">>)
SectieB == Name(<<"L","i","c","e","u">>)

\* up to MaxUnits counties, each with or without votes
RECURSIVE CountyUnits(_)
CountyUnits(n) ==
    IF n = 0 THEN {<<>>}
    ELSE {Append(rows, MkUnit(Name(COUNTIES[n]), TownA, SectieA, Num(2), lp,
                              IF n % 2 = 1 THEN One5 ELSE Zero5, Zero5)) :
             rows \in CountyUnits(n - 1), lp \in {Num(0), Num(1)}}

\* two stations of one county, in the same or in different towns
LevelUnits ==
    {<<MkUnit(Name(Alba), t1, SectieA, Num(1), Num(1), One5, Zero5),
       MkUnit(Name(Alba), t2, s2, Num(1), Num(1), Zero5, One5)>> :
        t1 \in {TownA, NaName}, t2 \in {TownA, TownB}, s2 \in {SectieA, SectieB}}

\* two counties, every pairing of votes and counts
FeatureUnits ==
    {<<MkUnit(Name(Alba), TownA, SectieA, Num(2), lp1, m1, Zero5),
       MkUnit(Name(Arad), TownB, SectieB, Num(2), lp2, m2, One5)>> :
        lp1 \in {Num(1), Num(2)}, lp2 \in {Num(1), NaN},
        m1 \in {Zero5, One5, Three5}, m2 \in {Zero5, One5}}
    \cup {<<MkUnit(Name(Alba), TownA, SectieA, Num(2), lp, m, m),
            MkUnit(Name(Arad), TownB, SectieB, Num(2), lp, m, m)>> :
            lp \in {Num(1), Num(2)}, m \in {Zero5, One5}}

DefaultUnits ==
    <<MkUnit(Name(Alba), TownA, SectieA, Num(2), Num(1), One5, Zero5),
      MkUnit(Name(Arad), TownB, SectieB, Num(2), Num(1), Zero5, One5)>>

ClusterFiles ==
    {NoClusterDir, AbsentFile, EmptyFile}
    \cup {CsvFile(ClusterCols \ drop, DefaultUnits) :
            drop \in {{"Femei 65+"}, {"Barbati 18-24", "Femei 18-24"},
                      Range(demographic_columns), {lp_col}, {localitate_col}}}
    \cup {CsvFile(ClusterCols, rows) :
            rows \in UNION {CountyUnits(n) : n \in 0..MaxUnits}
                     \cup LevelUnits \cup FeatureUnits}

LevelArgs ==
    {NaName, Name(county_level), Name(upper(town_level)), Name(polling_level),
     Name(<<"r","e","g","i","o","n">>)}

CountArgs == {NaN} \cup {Num(k) : k \in 1..MaxK}

\* the clustering endpoint on every input and request of the bounds
InitCluster ==
    /\ presence = AbsentFile
    /\ attendance = AbsentTable
    /\ now = 0
    /\ last = NoOp
    /\ norm = NoCall
    /\ presence_now \in ClusterFiles
    /\ response = NoResponse
    /\ results = AbsentTable
    /\ cycles = 0
    /\ inflight = Idle
NextCluster == GetClustering(LevelArgs, CountArgs)
SpecCluster == InitCluster /\ [][NextCluster]_vars

(***************************************************************************)
(* The results table and update_existing_data.  A candidate share is kept  *)
(* in hundredths of a percent, a change_factor in thousandths, an          *)
(* adjustment in hundredths of a percentage point.  As in the generator    *)
(* of attendance.csv, one run uses the same random outcome for every row.  *)
(***************************************************************************)
MaxCycles == 2   \* runs of update_existing_data in one behaviour

c_cols == <<"candidate_1", "candidate_2", "candidate_3", "candidate_4", "candidate_5">>
Candidates == 1..Len(c_cols)

RECURSIVE SumSeq(_)
SumSeq(s) == IF s = <<>> THEN 0 ELSE Head(s) + SumSeq(Tail(s))

\* int() of the quotient num/den, den > 0: towards zero
int_trunc(num, den) == IF num >= 0 THEN num \div den ELSE -((-num) \div den)

\* x if pd.notna(x) else 0
notna_or_zero(cell) == IF cell.k = "nan" THEN 0 ELSE cell.v

\* [(r / total * 100) if total > 0 else 20.0 for r in results], each round(.., 2)
results_pct(results_drawn) ==
    LET total == SumSeq(results_drawn)
    IN [i \in Candidates |->
           IF total > 0 THEN RoundHalfEven(results_drawn[i] * 10000, total) ELSE 2000]

\* outcomes of [random.uniform(5, 35) for _ in range(5)]
ResultDraws == {<<5, 5, 5, 5, 5>>, <<35, 5, 7, 11, 13>>}

results_entry(county, results_drawn, current_time) ==
    LET p == results_pct(results_drawn)
    IN [county |-> county,
        candidate_1 |-> Num(p[1]),
        candidate_2 |-> Num(p[2]),
        candidate_3 |-> Num(p[3]),
        candidate_4 |-> Num(p[4]),
        candidate_5 |-> Num(p[5]),
        timestamp |-> current_time]

\* generate_results_data(): one random row per county, written to results.csv
generate_results_data(results_drawn, current_time) ==
    Table([i \in 1..Len(COUNTIES) |-> results_entry(COUNTIES[i], results_drawn, current_time)])

results_cols_order == {"county", "timestamp"} \cup Range(c_cols)
results_columns(df) == IF df.rows = <<>> THEN results_cols_order ELSE DOMAIN df.rows[1]

\* outcomes of random.uniform(0.005, 0.02)
ChangeFactors == {5, 20}

\* outcomes of [random.uniform(-0.5, 0.5) for _ in c_cols]
Adjustments == {<<0, 0, 0, 0, 0>>, <<50, -50, 25, -25, 10>>, <<-50, -50, -50, -50, -50>>}

\* a plausible slip: the sum is not held down to the registered voters
new_votes_unbounded(total_voters, votes_cast, change_factor) ==
    votes_cast + int_trunc(total_voters * change_factor, 1000)

\* min(total_voters, votes_cast + int(total_voters * change_factor))
new_votes(total_voters, votes_cast, change_factor) ==
    Min(total_voters, votes_cast + int_trunc(total_voters * change_factor, 1000))

\* a plausible slip: the row is written anew from the columns the loop touches
attendance_row_rebuilt(row, change_factor, current_time) ==
    LET total_voters == notna_or_zero(row["total_voters"])
        votes == new_votes(total_voters, notna_or_zero(row["votes_cast"]), change_factor)
    IN [county |-> row["county"],
        total_voters |-> row["total_voters"],
        votes_cast |-> Num(votes),
        attendance_percentage |-> Num(attendance_percentage(votes, total_voters)),
        timestamp |-> current_time]

\* a plausible slip: the row keeps the timestamp it had
attendance_row_unstamped(row, change_factor, current_time) ==
    LET total_voters == notna_or_zero(row["total_voters"])
        votes == new_votes(total_voters, notna_or_zero(row["votes_cast"]), change_factor)
        set == [votes_cast |-> Num(votes),
                attendance_percentage |-> Num(attendance_percentage(votes, total_voters))]
    IN [c \in DOMAIN row \cup DOMAIN set |-> IF c \in DOMAIN set THEN set[c] ELSE row[c]]

\* one pass of the loop over attendance.csv: three cells of the row are set
attendance_row(row, change_factor, current_time) ==
    LET total_voters == notna_or_zero(row["total_voters"])
        votes == new_votes(total_voters, notna_or_zero(row["votes_cast"]), change_factor)
        set == [votes_cast |-> Num(votes),
                attendance_percentage |-> Num(attendance_percentage(votes, total_voters)),
                timestamp |-> current_time]
    IN [c \in DOMAIN row \cup DOMAIN set |-> IF c \in DOMAIN set THEN set[c] ELSE row[c]]

(* Does the try block over attendance.csv raise?  read_csv of a file it   *)
(* cannot parse, the check of the columns, and str * float or str + int   *)
(* in the first pass of the loop all do.                                   *)
attendance_raises(df) ==
    \/ is_unreadable(df)
    \/ ~({"county", "total_voters", "votes_cast"} \subseteq columns(df))
    \/ \E i \in 1..Len(df.rows) :
          df.rows[i]["total_voters"].k = "str" \/ df.rows[i]["votes_cast"].k = "str"

\* a plausible slip: a table that cannot be updated is left as it is
update_attendance_keeping(df, current_time) ==
    IF ~df.exists
    THEN {[table |-> generate_attendance_data(d, current_time), path |-> "missing"] : d \in Draws}
    ELSE IF attendance_raises(df)
    THEN {[table |-> df, path |-> "error"]}
    ELSE {[table |-> Table([i \in 1..Len(df.rows) |->
                               attendance_row(df.rows[i], f, current_time)]),
           path |-> "updated"] : f \in ChangeFactors}

\* the first half of update_existing_data: attendance.csv after it and the branch taken
update_attendance(df, current_time) ==
    IF ~df.exists
    THEN {[table |-> generate_attendance_data(d, current_time), path |-> "missing"] : d \in Draws}
    ELSE IF attendance_raises(df)
    THEN {[table |-> generate_attendance_data(d, current_time), path |-> "error"] : d \in Draws}
    ELSE {[table |-> Table([i \in 1..Len(df.rows) |->
                               attendance_row(df.rows[i], f, current_time)]),
           path |-> "updated"] : f \in ChangeFactors}

\* a plausible slip: the adjusted shares are stored without scaling them to 100
new_pcts_unscaled(current_pcts, adjustments) ==
    [i \in Candidates |-> Max(0, current_pcts[i] + adjustments[i])]

\* np.maximum(0, current + adjustments), scaled to a sum of 100, each round(.., 2)
new_pcts(current_pcts, adjustments) ==
    LET raised == [i \in Candidates |-> Max(0, current_pcts[i] + adjustments[i])]
        total_pct == SumSeq(raised)
    IN [i \in Candidates |->
           IF total_pct > 0 THEN RoundHalfEven(raised[i] * 10000, total_pct) ELSE 2000]

\* one pass of the loop over results.csv
results_row(row, adjustments, current_time) ==
    LET p == new_pcts([i \in Candidates |-> notna_or_zero(row[c_cols[i]])], adjustments)
        set == [c \in Range(c_cols) |-> Num(p[CHOOSE i \in Candidates : c_cols[i] = c])]
               @@ [timestamp |-> current_time]
    IN [c \in DOMAIN row \cup DOMAIN set |-> IF c \in DOMAIN set THEN set[c] ELSE row[c]]

\* read_csv, the check of the columns, and array(str) + array(float) raise
results_raises(df) ==
    \/ is_unreadable(df)
    \/ ~(({"county"} \cup Range(c_cols)) \subseteq results_columns(df))
    \/ \E i \in 1..Len(df.rows) : \E c \in Range(c_cols) : df.rows[i][c].k = "str"

\* the second half of update_existing_data: results.csv after it and the branch taken
update_results(df, current_time) ==
    IF ~df.exists
    THEN {[table |-> generate_results_data(r, current_time), path |-> "missing"] : r \in ResultDraws}
    ELSE IF results_raises(df)
    THEN {[table |-> generate_results_data(r, current_time), path |-> "error"] : r \in ResultDraws}
    ELSE {[table |-> Table([i \in 1..Len(df.rows) |->
                               results_row(df.rows[i], a, current_time)]),
           path |-> "updated"] : a \in Adjustments}

\* the whole function: both files after it, the branches taken, the value returned
update_existing_data(attendance_csv, results_csv, current_time) ==
    {[attendance |-> a.table, results |-> r.table,
      attendance_path |-> a.path, results_path |-> r.path, updated_any |-> TRUE] :
        a \in update_attendance(attendance_csv, current_time),
        r \in update_results(results_csv, current_time)}

\* a run of update_existing_data() (trigger_update without fresh, the update script)
UpdateExistingData ==
    /\ cycles < MaxCycles
    /\ \E r \in update_existing_data(attendance, results, now) :
           /\ attendance' = r.attendance
           /\ results' = r.results
           /\ last' = [op |-> "update_existing_data", path |-> r.attendance_path,
                       skipped |-> {}, warned |-> {}, ret |-> <<>>, status |-> 0,
                       results_path |-> r.results_path, updated_any |-> r.updated_any,
                       before |-> [attendance |-> attendance, results |-> results]]
           /\ cycles' = cycles + 1
           /\ UNCHANGED <<presence, now, norm, presence_now, response, inflight>>

(***************************************************************************)
(* Stored tables for update_existing_data.                                 *)
(***************************************************************************)
\* a row of attendance.csv with these two cells, its other columns filled
StoredRow(county, total_voters, votes_cast) ==
    [MkEntry(county, 2, 1, TwoBands(2), Num(1), None)
        EXCEPT !["total_voters"] = total_voters, !["votes_cast"] = votes_cast]

\* registered voters and votes cast: below, at and above the registered voters
StoredCounts ==
    {<<Num(200), Num(0)>>, <<Num(200), Num(198)>>, <<Num(200), Num(200)>>,
     <<Num(1000), Num(985)>>, <<Num(49), Num(10)>>, <<Num(49), Num(60)>>,
     <<Num(0), Num(0)>>, <<Num(0), Num(3)>>, <<NaN, Num(5)>>, <<Num(100), NaN>>}

DefaultAttendance == Table(<<StoredRow(Alba, Num(200), Num(100))>>)

UpdateTables ==
    {Table(<<StoredRow(Alba, p[1], p[2])>>) : p \in StoredCounts}
    \cup {Table(<<StoredRow(Alba, Num(200), Num(199)), StoredRow(Arad, Num(49), Num(49))>>),
          Table(<<WithoutColumn(WithoutColumn(StoredRow(Alba, Num(200), Num(100)),
                                              "attendance_percentage"), "timestamp")>>),
          Table(<<WithoutColumn(StoredRow(Alba, Num(200), Num(100)), "votes_cast")>>),
          Table(<<StoredRow(Alba, Txt, Num(1))>>),
          Table(<<StoredRow(Alba, Num(200), Num(1)), StoredRow(Arad, Num(200), Txt)>>),
          Table(<<>>), UnreadableTable, AbsentTable}

\* a row of results.csv with these five cells
SharesRow(county, shares) ==
    [county |-> county,
     candidate_1 |-> shares[1],
     candidate_2 |-> shares[2],
     candidate_3 |-> shares[3],
     candidate_4 |-> shares[4],
     candidate_5 |-> shares[5],
     timestamp |-> 0]

StoredShares ==
    {[i \in Candidates |-> Num(2000)],
     [i \in Candidates |-> IF i = 1 THEN Num(10000) ELSE Num(0)],
     [i \in Candidates |-> Num(0)],
     [i \in Candidates |-> IF i = 2 THEN NaN ELSE Num(2500)],
     [i \in Candidates |-> NaN],
     <<Num(3333), Num(3333), Num(3334), Num(30), Num(10)>>}

DefaultResults == Table(<<SharesRow(Alba, [i \in Candidates |-> Num(2000)])>>)

ResultTables ==
    {Table(<<SharesRow(Alba, s)>>) : s \in StoredShares}
    \cup {Table(<<SharesRow(Alba, [i \in Candidates |-> Num(2000)]),
                  SharesRow(Arad, <<Num(9000), Num(1000), Num(0), Num(0), Num(0)>>)>>),
          Table(<<WithoutColumn(SharesRow(Alba, [i \in Candidates |-> Num(2000)]), "candidate_5")>>),
          Table(<<WithoutColumn(SharesRow(Alba, [i \in Candidates |-> Num(2000)]), "timestamp")>>),
          Table(<<SharesRow(Alba, [i \in Candidates |-> IF i = 3 THEN Txt ELSE Num(2500)])>>),
          UnreadableTable, AbsentTable}

\* update_existing_data, run after run, on every stored table
InitUpdate ==
    /\ presence = AbsentFile
    /\ \/ attendance \in UpdateTables /\ results = DefaultResults
       \/ attendance = DefaultAttendance /\ results \in ResultTables
    /\ now = 0
    /\ last = NoOp
    /\ norm = NoCall
    /\ presence_now = AbsentFile
    /\ response = NoResponse
    /\ cycles = 0
    /\ inflight = Idle
NextUpdate == Tick \/ UpdateExistingData
SpecUpdate == InitUpdate /\ [][NextUpdate]_vars

\* a step that finishes one more run of update_existing_data
RunFinishes == cycles < MaxCycles /\ cycles' = cycles + 1

\* update_existing_data run after run: while a run can be taken, one is taken
SpecUpdateFair == SpecUpdate /\ WF_cycles(RunFinishes)

(***************************************************************************)
(* GET /results, and the backend as a whole.                               *)
(***************************************************************************)
(* The handler of GET /results: results.csv after it and the response.    *)
(* Without results.csv the generator is called first, and since it writes  *)
(* the file the check that follows it finds the file.                      *)
get_results(results_csv, current_time) ==
    IF ~results_csv.exists
    THEN {[results |-> generate_results_data(r, current_time),
           response |-> [route |-> "results", status |-> 200,
                         data |-> generate_results_data(r, current_time).rows,
                         last_update |-> last_update(generate_results_data(r, current_time).rows)]] :
             r \in ResultDraws}
    ELSE IF is_unreadable(results_csv)
    THEN {[results |-> results_csv,
           response |-> ErrorResponse("results", 500, "No columns to parse from file")]}
    ELSE {[results |-> results_csv,
           response |-> [route |-> "results", status |-> 200, data |-> results_csv.rows,
                         last_update |-> last_update(results_csv.rows)]]}

\* GET /results
GetResults ==
    \E r \in get_results(results, now) :
        /\ results' = r.results
        /\ response' = r.response
        /\ UNCHANGED <<presence, attendance, now, last, norm, presence_now, cycles, inflight>>

\* one presence file for each kind of table the aggregator leaves
AppSources ==
    {AbsentFile,
     CsvFile(AllCols, <<MkRow(NaName, Num(1), Num(1), Zero5, Zero5, TagU, Num(1))>>),
     CsvFile(AllCols, <<DefaultRow, MkRow(Name(BUCURESTI), Num(2), Num(1), Zero5, Zero5, TagU, Num(2))>>),
     CsvFile(AllCols \ {station_type_col}, <<DefaultRow, RuralRow>>)}

\* the writers of attendance.csv and the endpoint that reads it, one call at a time
InitOps == InitFiles /\ presence \in AppSources
NextOps ==
    \/ Tick
    \/ ProcessPresenceData
    \/ GenerateAttendanceData
    \/ UpdateExistingData
    \/ GetAttendance
SpecOps == InitOps /\ [][NextOps]_vars

\* the read endpoints over the tables the aggregator leaves
InitServe == InitFiles /\ presence \in AppSources
NextServe ==
    \/ ProcessPresenceData
    \/ GetAttendance
    \/ GetResults
    \/ GetDemographic
SpecServe == InitServe /\ [][NextServe]_vars

(***************************************************************************)
(* POST /trigger/update, step by step.  The development server answers     *)
(* each request in a thread of its own, so two requests can be inside the  *)
(* handler at once.  A request reads attendance.csv, computes its frame,   *)
(* and writes it with to_csv, which opens the file (emptying it) and       *)
(* stores the frame when it closes the file; the second table is updated   *)
(* in the step that ends the request.                                      *)
(***************************************************************************)
\* a plausible slip: a request waits while another is between its read and its write
waits_for_writers(p, requests) ==
    {q \in Procs \ {p} : requests[q].pc \in {"computed", "opened"}}

\* the requests that p waits for before it reads attendance.csv: the handler takes no lock
waits_for(p, requests) == {}

\* a request that has started reads as soon as nothing makes it wait
may_read(p, requests) ==
    /\ requests[p].pc = "started"
    /\ waits_for(p, requests) = {}

\* the request arrives: the API key is checked, then the branch is taken
TriggerUpdate(p) ==
    /\ inflight[p].pc = "idle"
    /\ \E kind \in {"unauthorized", "update", "fresh"} :
          IF kind = "unauthorized"
          THEN /\ inflight' = [inflight EXCEPT ![p] = [@ EXCEPT !.pc = "done", !.kind = kind]]
               /\ response' = ErrorResponse("trigger", 401, "Unauthorized")
          ELSE /\ inflight' = [inflight EXCEPT ![p] =
                                  [@ EXCEPT !.pc = "started", !.kind = kind, !.current_time = now]]
               /\ UNCHANGED response
    /\ UNCHANGED <<presence, attendance, now, last, norm, presence_now, results, cycles>>

(* The request computes the frame it is going to write: from              *)
(* attendance.csv as it is now (update_existing_data), or from the         *)
(* presence file (fresh).  A run that finds no valid county writes nothing.*)
ReadAttendance(p) ==
    /\ may_read(p, inflight)
    /\ \E o \in IF inflight[p].kind = "update"
                THEN {[table |-> u.table, path |-> u.path] :
                         u \in update_attendance(attendance, inflight[p].current_time)}
                ELSE {[table |-> r.attendance, path |-> r.path] :
                         r \in process_presence_data(presence, attendance, inflight[p].current_time)} :
          inflight' = [inflight EXCEPT ![p] =
                          [@ EXCEPT !.pc = IF o.path = "no_valid" THEN "written" ELSE "computed",
                                    !.df = o.table, !.seen = attendance, !.path = o.path]]
    /\ UNCHANGED <<presence, attendance, now, last, norm, presence_now, response, results, cycles>>

\* to_csv opens attendance.csv for writing: the file is there and holds nothing
OpenAttendance(p) ==
    /\ inflight[p].pc = "computed"
    /\ attendance' = UnreadableTable
    /\ inflight' = [inflight EXCEPT ![p] = [@ EXCEPT !.pc = "opened"]]
    /\ UNCHANGED <<presence, now, last, norm, presence_now, response, results, cycles>>

\* to_csv closes the file: it holds the frame of this request
CloseAttendance(p) ==
    /\ inflight[p].pc = "opened"
    /\ attendance' = inflight[p].df
    /\ inflight' = [inflight EXCEPT ![p] = [@ EXCEPT !.pc = "written"]]
    /\ UNCHANGED <<presence, now, last, norm, presence_now, response, results, cycles>>

\* the results table is updated or generated and the request is answered
FinishRequest(p) ==
    /\ inflight[p].pc = "written"
    /\ \E t \in IF inflight[p].kind = "update"
                THEN {u.table : u \in update_results(results, inflight[p].current_time)}
                ELSE {generate_results_data(r, now) : r \in ResultDraws} :
          results' = t
    /\ response' = [route |-> "trigger", status |-> 200, request |-> p]
    /\ cycles' = IF inflight[p].kind = "update" THEN cycles + 1 ELSE cycles
    /\ inflight' = [inflight EXCEPT ![p] = [@ EXCEPT !.pc = "done"]]
    /\ UNCHANGED <<presence, attendance, now, last, norm, presence_now>>

\* two requests to the update trigger and a reader of attendance.csv
InitRace ==
    /\ presence = AbsentFile
    /\ attendance \in {DefaultAttendance, AbsentTable}
    /\ results = DefaultResults
    /\ now = 0
    /\ last = NoOp
    /\ norm = NoCall
    /\ presence_now = AbsentFile
    /\ response = NoResponse
    /\ cycles = 0
    /\ inflight = Idle
NextRace ==
    \/ \E p \in Procs :
          \/ TriggerUpdate(p)
          \/ ReadAttendance(p)
          \/ OpenAttendance(p)
          \/ CloseAttendance(p)
          \/ FinishRequest(p)
    \/ GetAttendance
SpecRace == InitRace /\ [][NextRace]_vars

(***************************************************************************)
(* What the claims speak of, stated on the presence file and the table.    *)
(***************************************************************************)
\* the last operation was a run of process_presence_data that saved its own table
Saved == last.op = "process_presence_data" /\ last.path = "saved"

Emitted == 1..Len(attendance.rows)

\* the rows of the presence file whose raw name normalizes to a county name
RowsOf(county) ==
    {i \in 1..Len(presence.rows) : get_full_county_name(presence.rows[i].Judet) = county}

\* the numeric cells of a column added up over the rows I
RECURSIVE ColumnTotal(_, _)
ColumnTotal(I, col) ==
    IF I = {} THEN 0
    ELSE LET i == CHOOSE x \in I : TRUE
             c == CellOf(presence.rows[i], col)
         IN (IF c.k = "num" THEN c.v ELSE 0) + ColumnTotal(I \ {i}, col)

\* p, in hundredths, is num/den rounded to the nearest hundredth
IsRounded(p, num, den) ==
    LET d == p * den - num * 10000
    IN 2 * (IF d < 0 THEN -d ELSE d) <= den

\* the gender and age-band cells of the rows I
DemoCells(I) ==
    {CellOf(presence.rows[i], c) : i \in I, c \in Range(all_age_gender_cols)}

\* the distinct station identifiers among the rows I tagged u ignoring case
StationIds(I, u) ==
    {presence.rows[i].sid.v :
        i \in {j \in I : ~presence.rows[j].Mediu.na
                         /\ presence.rows[j].Mediu.s \in {<<u>>, <<LowerChar(u)>>}
                         /\ presence.rows[j].sid.k = "num"}}

(***************************************************************************)
(* C1: for every county aggregate emitted by process_presence_data,        *)
(* attendance_percentage is votes_cast / total_voters * 100 rounded to     *)
(* 2 decimals when the group's total_voters is positive and 0 when it is   *)
(* 0, the two totals being the sums of the registered and the cast         *)
(* columns over the rows of the group.                                     *)
(***************************************************************************)
C1_AttendancePercentage ==
    Saved =>
      \A n \in Emitted :
        LET e == attendance.rows[n]
            T == ColumnTotal(RowsOf(e.county), total_voters_col)
            V == ColumnTotal(RowsOf(e.county), votes_cast_col)
        IN /\ e.attendance_percentage.k = "num"
           /\ T > 0 => IsRounded(e.attendance_percentage.v, V, T)
           /\ T = 0 => e.attendance_percentage.v = 0

\* a group of two rows whose percentage needs rounding (not a whole number of per cent)
C1_Witness ==
    /\ Saved
    /\ \E n \in Emitted :
         /\ Cardinality(RowsOf(attendance.rows[n].county)) = 2
         /\ attendance.rows[n].attendance_percentage.v % 100 # 0

(***************************************************************************)
(* C2, as claimed: for every county aggregate emitted by                   *)
(* process_presence_data, for every input of non-negative counts,          *)
(* attendance_percentage lies in [0,100].                                  *)
(***************************************************************************)
C2_Original ==
    Saved =>
      \A n \in Emitted :
        /\ attendance.rows[n].attendance_percentage.v >= 0
        /\ attendance.rows[n].attendance_percentage.v <= 10000

(***************************************************************************)
(* C2, amended: attendance_percentage is never negative, and it lies in    *)
(* [0,100] whenever the group's votes_cast does not exceed its             *)
(* total_voters.                                                           *)
(***************************************************************************)
C2_AttendanceRange ==
    Saved =>
      \A n \in Emitted :
        LET e == attendance.rows[n]
        IN /\ e.attendance_percentage.v >= 0
           /\ e.votes_cast.v <= e.total_voters.v => e.attendance_percentage.v <= 10000

\* a group with votes cast, fewer than registered voters
C2_Witness ==
    /\ Saved
    /\ \E n \in Emitted :
         /\ attendance.rows[n].votes_cast.v > 0
         /\ attendance.rows[n].votes_cast.v < attendance.rows[n].total_voters.v
         /\ attendance.rows[n].attendance_percentage.v \in 1..9999

(***************************************************************************)
(* C3, as claimed: after every run of process_presence_data, whatever      *)
(* the input, an aggregate table has been written.                         *)
(***************************************************************************)
C3_TableWritten ==
    last.op = "process_presence_data" => attendance.exists

IsSynthetic(t) ==
    /\ t.exists
    /\ Len(t.rows) = Len(COUNTIES)
    /\ \A i \in 1..Len(COUNTIES) : t.rows[i].county = COUNTIES[i]
    /\ \E d \in Draws : \A i \in 1..Len(COUNTIES) : t.rows[i].total_voters.v = d.total_voters

\* a group the loop does not skip has text in its registered-voters column
TextInTotals ==
    \E i \in 1..Len(presence.rows) :
        /\ presence.rows[i].tv.k = "str"
        /\ ~IsSkipped(get_full_county_name(presence.rows[i].Judet))

C5_Normalizer ==
    norm.called =>
      LET key == upper(strip(norm.arg.s))
      IN /\ norm.arg.na => norm.ret = UnknownName
         /\ ~norm.arg.na /\ key \in DOMAIN COUNTY_NAME_MAP =>
              norm.ret = COUNTY_NAME_MAP[key] /\ norm.ret \in CountySet
         /\ ~norm.arg.na /\ key \notin DOMAIN COUNTY_NAME_MAP =>
              norm.ret = strip(norm.arg.s) /\ norm.ret \notin CountySet
         /\ norm.arg = Name(BUCURESTI) => norm.ret = Bucharest
         /\ norm.arg = Name(Xyzabc) => norm.ret = Xyzabc

\* a lower-case spelling with blanks around it was mapped to its canonical name
C5_Witness ==
    /\ norm.called
    /\ norm.arg = Name(Pad(lower(Bucharest), 1))
    /\ norm.ret = Bucharest

\* the normalized names of the rows of the presence file
NormalizedNames ==
    {get_full_county_name(presence.rows[i].Judet) : i \in 1..Len(presence.rows)}

EmittedNames == {attendance.rows[n].county : n \in Emitted}

(***************************************************************************)
(* C6, as claimed: a run emits exactly one row for each distinct           *)
(* normalized name of the input except "Unknown".                          *)
(***************************************************************************)
C6_Original ==
    Saved => EmittedNames = NormalizedNames \ {UnknownName}

(***************************************************************************)
(* C6, amended: a run emits exactly one row for each distinct normalized   *)
(* name of the input except "Unknown" and the empty name (a raw name of    *)
(* blanks only), both of which are dropped: no emitted row has one of      *)
(* these names, the names of the output are pairwise distinct, and the     *)
(* rows of a dropped group add to no emitted total.                        *)
(***************************************************************************)
C6_OneRowPerCounty ==
    Saved =>
      /\ EmittedNames = NormalizedNames \ {UnknownName, <<>>}
      /\ \A n, m \in Emitted : attendance.rows[n].county = attendance.rows[m].county => n = m
      /\ \A n \in Emitted :
           attendance.rows[n].total_voters
             = Num(ColumnTotal(RowsOf(attendance.rows[n].county), total_voters_col))
      /\ last.skipped = NormalizedNames \cap {UnknownName, <<>>}

\* a nameless row with registered voters was dropped next to an emitted county
C6_Witness ==
    /\ Saved
    /\ UnknownName \in last.skipped
    /\ ColumnTotal(RowsOf(UnknownName), total_voters_col) > 0
    /\ EmittedNames # {}

(***************************************************************************)
(* C7: for every emitted county aggregate whose source values are all      *)
(* numeric, male_voters + female_voters equals the sum of the five         *)
(* age-band totals.                                                        *)
(***************************************************************************)
C7_GenderEqualsAges ==
    Saved =>
      \A n \in Emitted :
        LET e == attendance.rows[n]
        IN (\A c \in DemoCells(RowsOf(e.county)) : c.k = "num") =>
             e.male_voters.v + e.female_voters.v
               = e.age_18_24.v + e.age_25_34.v + e.age_35_44.v + e.age_45_64.v
                 + e.age_65_plus.v

\* a group with numeric cells only, and men and women in it
C7_Witness ==
    /\ Saved
    /\ \E n \in Emitted :
         /\ \A c \in DemoCells(RowsOf(attendance.rows[n].county)) : c.k = "num"
         /\ attendance.rows[n].male_voters.v > 0
         /\ attendance.rows[n].female_voters.v > 0

(***************************************************************************)
(* C8, as claimed: a gender field whose source cells hold no valid number  *)
(* at all in the group is emitted as null, and 0 is emitted only when      *)
(* valid numbers summed to zero.                                           *)
(***************************************************************************)
C8_NullWhenNoData ==
    Saved =>
      \A n \in Emitted :
        LET e == attendance.rows[n]
            I == RowsOf(e.county)
            noMale == \A i \in I, b \in Bands : presence.rows[i].M[b].k # "num"
            noFemale == \A i \in I, b \in Bands : presence.rows[i].F[b].k # "num"
        IN /\ noMale <=> e.male_voters = None
           /\ noFemale <=> e.female_voters = None

(***************************************************************************)
(* C9: for every county group whose station step ran to its end,           *)
(* urban_stations is the number of distinct station identifiers among the  *)
(* rows whose station type is 'U' ignoring case and rural_stations the     *)
(* same for 'R'; rows with a missing or another type count for neither;    *)
(* and when the station-type or the station-identifier column is absent    *)
(* both counts are null, not zero.                                         *)
(***************************************************************************)
C9_StationCounts ==
    Saved =>
      \A n \in Emitted :
        LET e == attendance.rows[n]
            I == RowsOf(e.county)
        IN e.county \notin last.warned =>
             IF {station_type_col, station_id_col} \subseteq presence.cols
             THEN /\ e.urban_stations = Num(Cardinality(StationIds(I, "U")))
                  /\ e.rural_stations = Num(Cardinality(StationIds(I, "R")))
             ELSE e.urban_stations = None /\ e.rural_stations = None

\* two urban rows, tagged in different case, that share one station identifier
C9_Witness ==
    /\ Saved
    /\ Len(presence.rows) = 2
    /\ presence.rows[1].Mediu = Name(<<"U">>)
    /\ presence.rows[2].Mediu = Name(<<"u">>)
    /\ presence.rows[1].sid = presence.rows[2].sid
    /\ presence.rows[1].sid.k = "num"
    /\ last.warned = {}
    /\ attendance.rows[1].urban_stations = Num(1)
    /\ attendance.rows[1].rural_stations = Num(0)

(***************************************************************************)
(* C10, as claimed: after process_presence_data returns, the stored table  *)
(* holds only rows computed by that run or by its fallback, none left      *)
(* over from the table that was there before.                              *)
(***************************************************************************)
C10_ReplacedWholesale ==
    last.op = "process_presence_data" =>
      \A n \in Emitted : \E m \in 1..Len(last.ret) : last.ret[m] = attendance.rows[n]

(***************************************************************************)
(* What the claims speak of, stated on attendance.csv and the answer to    *)
(* GET /demographic.                                                       *)
(***************************************************************************)
\* the last request was GET /demographic and it was answered with data
Answered == response.route = "demographic" /\ response.status = 200

Counties == 1..Len(attendance.rows)

Abs(x) == IF x < 0 THEN -x ELSE x

\* q is the quotient num/den rounded to a nearest integer
IsNearest(q, num, den) == 2 * Abs(q * den - num) <= den

GenderAndAgeCounts ==
    {"male_voters", "female_voters", "age_18_24", "age_25_34", "age_35_44",
     "age_45_64", "age_65_plus"}

\* the answer's figures: the national ones and those of each county
Figures == {response.national} \cup {response.counties[i] : i \in Counties}

(***************************************************************************)
(* C11: when the demographic endpoint estimates urban/rural splits, for    *)
(* every county row with u = urban_stations, r = rural_stations and        *)
(* T = u + r, urban_votes = round(votes_cast * u / T) and rural_votes =    *)
(* round(votes_cast * r / T), both 0 when T = 0; and each gender or        *)
(* age-band sub-count is round(count * urban_votes / votes_cast), rural    *)
(* likewise, and 0 when votes_cast = 0.                                    *)
(***************************************************************************)
C11_Estimator ==
    Answered /\ response.estimated =>
      \A i \in Counties :
        LET row == attendance.rows[i]
            c == response.counties[i]
            v == row["votes_cast"].v
            u == row["urban_stations"].v
            r == row["rural_stations"].v
        IN /\ u + r > 0 => /\ IsNearest(c["urban_votes"], v * u, u + r)
                           /\ IsNearest(c["rural_votes"], v * r, u + r)
           /\ u + r = 0 => c["urban_votes"] = 0 /\ c["rural_votes"] = 0
           /\ \A g \in GenderAndAgeCounts, scope \in {"urban", "rural"} :
                LET sub == c[scope \o "_" \o g]
                IN /\ v > 0 => IsNearest(sub, row[g].v * c[scope \o "_votes"], v)
                   /\ v = 0 => sub = 0

\* three votes over one urban and one rural station: both estimates are rounded from 1.5
C11_Witness ==
    /\ Answered /\ response.estimated
    /\ \E i \in Counties :
         /\ attendance.rows[i]["votes_cast"] = Num(3)
         /\ attendance.rows[i]["urban_stations"] = Num(1)
         /\ attendance.rows[i]["rural_stations"] = Num(1)
         /\ response.counties[i]["urban_votes"] = 2
         /\ response.counties[i]["urban_male_voters"] > 0

(***************************************************************************)
(* C12, as claimed: for every county row the estimator processes,          *)
(* urban_votes + rural_votes differs from votes_cast by at most 2, for     *)
(* every combination of non-negative votes_cast, urban_stations and        *)
(* rural_stations.                                                         *)
(***************************************************************************)
C12_Original ==
    Answered /\ response.estimated =>
      \A i \in Counties :
        Abs(response.counties[i]["urban_votes"] + response.counties[i]["rural_votes"]
            - attendance.rows[i]["votes_cast"].v) <= 2

(***************************************************************************)
(* C12, amended: for every county row with at least one station,           *)
(* urban_votes + rural_votes differs from votes_cast by at most 1; for a   *)
(* row with no station at all both estimates are 0, whatever votes_cast.   *)
(***************************************************************************)
C12_EstimateSum ==
    Answered /\ response.estimated =>
      \A i \in Counties :
        LET row == attendance.rows[i]
            c == response.counties[i]
        IN IF row["urban_stations"].v + row["rural_stations"].v > 0
           THEN Abs(c["urban_votes"] + c["rural_votes"] - row["votes_cast"].v) <= 1
           ELSE c["urban_votes"] + c["rural_votes"] = 0

\* a row with stations whose two estimates do not add up to its votes
C12_Witness ==
    /\ Answered /\ response.estimated
    /\ \E i \in Counties :
         /\ attendance.rows[i]["urban_stations"].v + attendance.rows[i]["rural_stations"].v > 0
         /\ response.counties[i]["urban_votes"] + response.counties[i]["rural_votes"]
              # attendance.rows[i]["votes_cast"].v

\* the direct urban/rural columns the table holds
DirectPresent == Range(urban_rural_columns) \cap columns(attendance)

(***************************************************************************)
(* C13, as claimed: a direct urban/rural column that is present in the     *)
(* table is reported with its stored values and is never overwritten by    *)
(* an estimate; the estimator runs only when the direct columns are        *)
(* absent.                                                                 *)
(***************************************************************************)
C13_Original ==
    Answered =>
      /\ response.estimated => DirectPresent = {}
      /\ \A i \in Counties, c \in DirectPresent :
           response.counties[i][c] = attendance.rows[i][c].v

(***************************************************************************)
(* C13, amended: the estimator runs unless all sixteen direct urban/rural  *)
(* columns are present in the table.  When all sixteen are present they    *)
(* are reported with their stored values; when at least one is missing,    *)
(* all sixteen are estimated, and a direct column that was present is      *)
(* overwritten by its estimate.                                            *)
(***************************************************************************)
C13_EstimateUnlessAllDirect ==
    Answered =>
      /\ response.estimated <=> DirectPresent # Range(urban_rural_columns)
      /\ DirectPresent = Range(urban_rural_columns) =>
           \A i \in Counties, c \in DirectPresent :
             response.counties[i][c] = attendance.rows[i][c].v
      /\ DirectPresent # Range(urban_rural_columns) =>
           \A i \in Counties :
             LET row == attendance.rows[i]
                 T == row["urban_stations"].v + row["rural_stations"].v
             IN T > 0 => IsNearest(response.counties[i]["urban_votes"],
                                   row["votes_cast"].v * row["urban_stations"].v, T)

\* all sixteen columns stored, with a number of urban votes no estimate would give
C13_Witness ==
    /\ Answered
    /\ DirectPresent = Range(urban_rural_columns)
    /\ attendance.rows[1]["votes_cast"] = Num(2)
    /\ attendance.rows[1]["urban_votes"] = Num(MaxVotes + 3)
    /\ response.counties[1]["urban_votes"] = MaxVotes + 3

BasicPercentages ==
    {"male_percentage", "female_percentage", "age_18_24_percentage",
     "age_25_34_percentage", "age_35_44_percentage", "age_45_64_percentage",
     "age_65_plus_percentage", "urban_percentage", "rural_percentage"}

UrbanPercentages ==
    {"urban_male_percentage", "urban_female_percentage", "urban_age_18_24_percentage",
     "urban_age_25_34_percentage", "urban_age_35_44_percentage",
     "urban_age_45_64_percentage", "urban_age_65_plus_percentage"}

RuralPercentages ==
    {"rural_male_percentage", "rural_female_percentage", "rural_age_18_24_percentage",
     "rural_age_25_34_percentage", "rural_age_35_44_percentage",
     "rural_age_45_64_percentage", "rural_age_65_plus_percentage"}

(***************************************************************************)
(* C14: in the demographic output, at national and at county granularity,  *)
(* a percentage field is present only if its denominator is positive: no   *)
(* percentage field at all when total votes cast is 0, urban-scoped        *)
(* percentages only if urban_votes > 0 and rural-scoped ones only if       *)
(* rural_votes > 0, the urban and the rural guard being independent of     *)
(* each other.                                                             *)
(***************************************************************************)
C14_PercentageGuards ==
    Answered =>
      \A d \in Figures :
        LET Present == DOMAIN d \ ({"total_votes"} \cup count_columns)
        IN /\ Present \subseteq BasicPercentages \cup UrbanPercentages \cup RuralPercentages
           /\ d["total_votes"] = 0 => Present = {}
           /\ Present \cap UrbanPercentages # {} => d["urban_votes"] > 0
           /\ Present \cap RuralPercentages # {} => d["rural_votes"] > 0
           /\ d["total_votes"] > 0 =>
                /\ BasicPercentages \subseteq Present
                /\ d["urban_votes"] > 0 => UrbanPercentages \subseteq Present
                /\ d["rural_votes"] > 0 => RuralPercentages \subseteq Present

\* a county with rural and no urban votes: the rural percentages alone are there
C14_Witness ==
    /\ Answered
    /\ \E i \in Counties :
         LET d == response.counties[i]
         IN /\ d["total_votes"] > 0
            /\ d["urban_votes"] = 0
            /\ d["rural_votes"] > 0
            /\ RuralPercentages \subseteq DOMAIN d
            /\ UrbanPercentages \cap DOMAIN d = {}

RECURSIVE SumOfCounties(_, _)
SumOfCounties(I, c) ==
    IF I = {} THEN 0
    ELSE LET i == CHOOSE x \in I : TRUE
         IN response.counties[i][c] + SumOfCounties(I \ {i}, c)

\* p, in tenths of a percent, is count / total * 100 rounded to 1 decimal
IsPercentage(p, count, total) == 2 * Abs(p * total - count * 1000) <= total

(***************************************************************************)
(* C15: in the demographic output every national absolute count is the     *)
(* sum of that count over all county rows, and each gender/age percentage  *)
(* is count / total votes cast of the same granularity * 100 rounded to    *)
(* 1 decimal, the national ones from the summed totals; a county of 1000   *)
(* votes, 500 men and 500 women, reports 50.0 for both.                    *)
(***************************************************************************)
C15_NationalTotals ==
    Answered =>
      /\ \A c \in {"total_votes"} \cup count_columns :
           response.national[c] = SumOfCounties(Counties, c)
      /\ \A i \in Counties, c \in Range(basic_demographic_columns) :
           response.counties[i][c] = attendance.rows[i][c].v
      /\ \A d \in Figures :
           d["total_votes"] > 0 =>
             /\ IsPercentage(d["male_percentage"], d["male_voters"], d["total_votes"])
             /\ IsPercentage(d["female_percentage"], d["female_voters"], d["total_votes"])
             /\ \A a \in Range(age_group_keys) :
                  IsPercentage(d[a \o "_percentage"], d[a], d["total_votes"])
      /\ \A d \in Figures :
           d["total_votes"] = 1000 /\ d["male_voters"] = 500 /\ d["female_voters"] = 500 =>
             d["male_percentage"] = 500 /\ d["female_percentage"] = 500

\* two counties whose national share of men is not the average of their shares
C15_Witness ==
    /\ Answered
    /\ Len(attendance.rows) = 2
    /\ response.counties[1]["total_votes"] > 0
    /\ response.counties[2]["total_votes"] > 0
    /\ response.national["male_voters"]
         = response.counties[1]["male_voters"] + response.counties[2]["male_voters"]
    /\ 2 * response.national["male_percentage"]
         # response.counties[1]["male_percentage"] + response.counties[2]["male_percentage"]

(***************************************************************************)
(* What the claims speak of, stated on presence_now.csv, the request and   *)
(* the answer to GET /clustering.                                          *)
(***************************************************************************)
\* the last request was GET /clustering and it got as far as grouping
Grouped == response.route = "clustering" /\ response.log.steps # <<>>

\* the last request was GET /clustering and it was answered with a clustering
Clustered == response.route = "clustering" /\ response.status = 200

RequestedLevel ==
    IF response.request.level.na THEN county_level ELSE lower(response.request.level.s)

RequestedK ==
    IF response.request.n_clusters = NaN THEN 5 ELSE response.request.n_clusters.v

\* the number of columns that identify a group of the requested level
Depth == IF RequestedLevel = county_level THEN 1
         ELSE IF RequestedLevel = town_level THEN 2 ELSE 3

RowKey(r) == SubSeq(<<r.Judet, r.Localitate, r.Sectie>>, 1, Depth)

\* the rows that belong to a group: none of their key cells is missing
Keyed == {i \in 1..Len(presence_now.rows) :
            \A n \in 1..Depth : ~RowKey(presence_now.rows[i])[n].na}

RECURSIVE VotesOf(_, _)
VotesOf(I, key) ==
    IF I = {} THEN 0
    ELSE LET i == CHOOSE x \in I : TRUE
             r == presence_now.rows[i]
         IN (IF RowKey(r) = key /\ r.LP.k = "num" THEN r.LP.v ELSE 0)
            + VotesOf(I \ {i}, key)

\* the groups of the requested level, and those with votes cast
Groups == {RowKey(presence_now.rows[i]) : i \in Keyed}
PositiveGroups == {key \in Groups : VotesOf(Keyed, key) > 0}

\* a key as the answer spells it
Spelled(key) == [n \in 1..Len(key) |-> key[n].s]

C17_NeverFails ==
    Grouped =>
      /\ response.status = 200
      /\ response.n_clusters <= Len(response.clustered_data)

(***************************************************************************)
(* C18, as claimed: every demographic percentage feature of the            *)
(* clustering output lies in [0,100], and no NaN or Infinity appears in    *)
(* any field of the output, for every input of groups with positive votes  *)
(* cast.                                                                   *)
(***************************************************************************)
C18_FiniteOutput ==
    Clustered =>
      /\ \A u \in 1..Len(response.clustered_data), c \in Range(demographic_columns) :
           LET p == response.clustered_data[u].demographics_pct[c]
           IN p.den > 0 /\ 0 <= p.num /\ p.num <= 100 * p.den
      /\ \A u \in 1..Len(response.clustered_data) :
           /\ response.clustered_data[u].pca_x = "finite"
           /\ response.clustered_data[u].pca_y = "finite"
      /\ \A c \in DOMAIN response.cluster_centers : response.cluster_centers[c] = "finite"
      /\ response.explained_variance_ratio = "finite"

(***************************************************************************)
(* C19: the clustering engine drops every group whose summed votes cast    *)
(* is <= 0 before clustering: the groups it goes on with are the groups    *)
(* of the requested level with positive votes cast, every unit in          *)
(* clustered_data has total_votes > 0, and the units emitted are as many   *)
(* as those groups.                                                        *)
(***************************************************************************)
C19_ZeroVoteGroupsDropped ==
    Grouped =>
      /\ response.log.kept = {Spelled(key) : key \in PositiveGroups}
      /\ Clustered =>
           /\ \A u \in 1..Len(response.clustered_data) :
                response.clustered_data[u].total_votes > 0
           /\ Len(response.clustered_data) = Cardinality(PositiveGroups)
           /\ {response.clustered_data[u].key : u \in 1..Len(response.clustered_data)}
                = {Spelled(key) : key \in PositiveGroups}

\* three groups, one of them without votes: two units are emitted
C19_Witness ==
    /\ Clustered
    /\ Cardinality(Groups) = 3
    /\ Cardinality(PositiveGroups) = 2
    /\ Len(response.clustered_data) = 2

(***************************************************************************)
(* C20: a clustering request whose input lacks any of the ten required     *)
(* demographic columns fails with a descriptive error before any           *)
(* grouping, scaling, k-means or PCA step is run, returns no partial       *)
(* clustering result, and never falls back to synthetic data.              *)
(***************************************************************************)
C20_MissingColumnsFailFast ==
    response.route = "clustering" /\ presence_now.state = "ok"
        /\ ~(Range(demographic_columns) \subseteq presence_now.cols) =>
      /\ response.status = 400
      /\ response.error = "Required demographic columns missing in presence data"
      /\ response.log.steps = <<>>
      /\ DOMAIN response \cap {"clustered_data", "cluster_centers", "n_clusters"} = {}
      /\ attendance = AbsentTable

\* a request on a file that lacks one of the ten columns only
C20_Witness ==
    /\ response.route = "clustering"
    /\ presence_now.state = "ok"
    /\ Range(demographic_columns) \ presence_now.cols = {"Femei 65+"}
    /\ response.request.level = Name(county_level)
    /\ response.status = 400

(***************************************************************************)
(* What the claims about update_existing_data speak of.                    *)
(***************************************************************************)
\* the last operation was a run of update_existing_data
Updated == last.op = "update_existing_data"

\* that run perturbed the stored attendance table (it did not generate one)
AttendancePerturbed == Updated /\ last.path = "updated"

\* that run perturbed the stored results table
ResultsPerturbed == Updated /\ last.results_path = "updated"

ResultRows == 1..Len(results.rows)

\* the five candidate shares of a results row, in hundredths of a percent
Shares(row) == [i \in Candidates |-> row[c_cols[i]]]

SharesTotal(row) == SumSeq([i \in Candidates |-> Shares(row)[i].v])

(* C21: after every run of update_existing_data, from any stored results   *)
(* table and however many runs came before, the five candidate shares of   *)
(* every row of results.csv are numbers in [0, 100] and sum to 100.0       *)
(* within 0.1.                                                             *)
C21_SharesSumTo100 ==
    Updated =>
        \A i \in ResultRows :
            /\ \A c \in Candidates :
                  /\ Shares(results.rows[i])[c].k = "num"
                  /\ Shares(results.rows[i])[c].v \in 0..10000
            /\ Abs(SharesTotal(results.rows[i]) - 10000) <= 10

\* a second run in a row has perturbed shares, and rounding left a sum that is not 100.00
C21_Witness ==
    /\ ResultsPerturbed
    /\ cycles = MaxCycles
    /\ last.before.results.rows # results.rows
    /\ \E i \in ResultRows : SharesTotal(results.rows[i]) # 10000

AttendanceRows == 1..Len(attendance.rows)

\* a row of the table the last run read, where both counts are numbers
Counted(i) ==
    /\ last.before.attendance.rows[i]["total_voters"].k = "num"
    /\ last.before.attendance.rows[i]["votes_cast"].k = "num"

VotesBefore(i) == last.before.attendance.rows[i]["votes_cast"].v
VotersBefore(i) == last.before.attendance.rows[i]["total_voters"].v
VotesAfter(i) == attendance.rows[i]["votes_cast"].v

(* C22: a cycle of update_existing_data lets votes_cast only grow, and by  *)
(* at most 2% of total_voters: for every row of the stored table,          *)
(* votes_cast after the cycle is at least votes_cast before it and at      *)
(* most votes_cast before it plus 2% of total_voters.                      *)
C22_BoundedGrowth ==
    AttendancePerturbed =>
        \A i \in AttendanceRows :
            Counted(i) =>
                /\ VotesAfter(i) >= VotesBefore(i)
                /\ (VotesAfter(i) - VotesBefore(i)) * 100 <= 2 * VotersBefore(i)

\* the registered voters of a stored row as the update reads them: an empty cell counts as 0
VotersAfter(i) ==
    IF attendance.rows[i]["total_voters"].k = "num"
    THEN attendance.rows[i]["total_voters"].v ELSE 0

PercentageAfter(i) == attendance.rows[i]["attendance_percentage"].v

(* C26: after every cycle of update_existing_data that perturbs a stored   *)
(* attendance table, the first or a later one and whatever the table held  *)
(* before, every row has votes_cast <= total_voters and an                 *)
(* attendance_percentage of at most 100 that is                            *)
(* round(votes_cast / total_voters * 100, 2), and 0 when total_voters is   *)
(* 0.  The rounding is compared on rows whose products fit the integers.   *)
C26_CappedAfterUpdate ==
    AttendancePerturbed =>
        \A i \in AttendanceRows :
            /\ attendance.rows[i]["votes_cast"].k = "num"
            /\ attendance.rows[i]["attendance_percentage"].k = "num"
            /\ VotesAfter(i) <= VotersAfter(i)
            /\ PercentageAfter(i) <= 10000
            /\ VotersAfter(i) = 0 => PercentageAfter(i) = 0
            /\ (VotersAfter(i) > 0 /\ VotersAfter(i) <= 200000) =>
                   IsRounded(PercentageAfter(i), VotesAfter(i), VotersAfter(i))

\* a second cycle in a row moved a row's votes and the cap at total_voters acted
C26_Witness ==
    /\ AttendancePerturbed
    /\ cycles = MaxCycles
    /\ \E i \in AttendanceRows :
          /\ Counted(i)
          /\ VotesBefore(i) # VotesAfter(i)
          /\ VotesAfter(i) = VotersAfter(i)
          /\ PercentageAfter(i) = 10000

\* the rows a stored attendance table of the bounds can have
StoredIndex == 1..2

\* row i has at least 200 registered voters and is within one vote per remaining cycle of them
NearlyFull(i) ==
    /\ attendance.exists /\ i \in AttendanceRows
    /\ {"total_voters", "votes_cast"} \subseteq DOMAIN attendance.rows[i]
    /\ attendance.rows[i]["total_voters"].k = "num"
    /\ attendance.rows[i]["votes_cast"].k = "num"
    /\ VotersAfter(i) >= 200
    /\ VotesAfter(i) >= VotersAfter(i) - (MaxCycles - cycles)

Full(i) ==
    /\ attendance.exists /\ i \in AttendanceRows
    /\ {"total_voters", "votes_cast"} \subseteq DOMAIN attendance.rows[i]
    /\ attendance.rows[i]["votes_cast"].k = "num"
    /\ VotesAfter(i) = VotersAfter(i)

\* this step is a cycle that perturbs the stored attendance table
PerturbingStep == cycles' = cycles + 1 /\ last'.path = "updated"

(* C27: under repeated cycles of update_existing_data on a stored          *)
(* attendance table, a row with total_voters >= 200 gains at least one     *)
(* vote per cycle and so reaches votes_cast = total_voters (stated for the *)
(* cycles a behaviour has: a row within one vote per remaining cycle of    *)
(* its total reaches it); a row at votes_cast = total_voters keeps its     *)
(* votes_cast in every later cycle; a row with total_voters < 50 never     *)
(* changes its votes_cast.                                                 *)
C27_Saturation ==
    /\ \A i \in StoredIndex : NearlyFull(i) ~> Full(i)
    /\ [][PerturbingStep =>
            \A i \in AttendanceRows :
                Full(i) => attendance'.rows[i]["votes_cast"] = attendance.rows[i]["votes_cast"]]_vars
    /\ [][PerturbingStep =>
            \A i \in AttendanceRows :
                (attendance.rows[i]["total_voters"].k = "num" /\ VotersAfter(i) < 50) =>
                    attendance'.rows[i]["votes_cast"] = attendance.rows[i]["votes_cast"]]_vars

\* the columns a cycle may write
AttendanceWritten == {"votes_cast", "attendance_percentage", "timestamp"}
ResultsWritten == Range(c_cols) \cup {"timestamp"}

\* table after has the rows of table before, in their order, equal outside the columns written
SameOutside(before, after, written) ==
    /\ Len(after.rows) = Len(before.rows)
    /\ \A i \in 1..Len(before.rows) :
          /\ DOMAIN before.rows[i] \subseteq DOMAIN after.rows[i]
          /\ DOMAIN after.rows[i] \subseteq DOMAIN before.rows[i] \cup written
          /\ \A c \in DOMAIN before.rows[i] \ written :
                after.rows[i][c] = before.rows[i][c]

(* C28: a cycle of update_existing_data that perturbs the stored           *)
(* attendance table changes only votes_cast, attendance_percentage and     *)
(* timestamp: the rows, their county names, total_voters, the gender and   *)
(* age-band totals and the station counts are as before; on the stored     *)
(* results table it changes only the five candidate shares and timestamp.  *)
C28_FrameOfUpdate ==
    /\ AttendancePerturbed =>
           SameOutside(last.before.attendance, attendance, AttendanceWritten)
    /\ ResultsPerturbed =>
           SameOutside(last.before.results, results, ResultsWritten)

\* a cycle moved the votes of one of two rows and the shares, and kept an empty station cell
C28_Witness ==
    /\ AttendancePerturbed /\ ResultsPerturbed
    /\ Len(attendance.rows) = 2
    /\ \E i \in AttendanceRows :
          /\ Counted(i) /\ VotesAfter(i) # VotesBefore(i)
          /\ attendance.rows[i]["rural_stations"] = None
          /\ attendance.rows[i]["male_voters"] = Num(1)
    /\ \E i \in ResultRows :
          Shares(results.rows[i]) # Shares(last.before.results.rows[i])

\* a stored file that cannot be perturbed: not there, not parsable, or without a required column
Unusable(t, required) ==
    \/ ~t.exists
    \/ is_unreadable(t)
    \/ t.rows # <<>> /\ ~(required \subseteq DOMAIN t.rows[1])

\* the results table is the generator's: one row with five shares for each of the 42 counties
IsSyntheticResults(t) ==
    /\ t.exists
    /\ Len(t.rows) = Len(COUNTIES)
    /\ \A i \in 1..Len(COUNTIES) :
          /\ t.rows[i].county = COUNTIES[i]
          /\ \E r \in ResultDraws : Shares(t.rows[i]) = [c \in Candidates |-> Num(results_pct(r)[c])]

(* C29: from every starting state update_existing_data returns True and    *)
(* leaves both attendance.csv and results.csv present and readable; a      *)
(* table that was missing, unreadable or without its required columns is   *)
(* afterwards a synthetic one with a row for each of the 42 canonical      *)
(* counties, not the table as it was.                                      *)
C29_AlwaysBothTables ==
    Updated =>
        /\ last.updated_any
        /\ attendance.exists /\ ~is_unreadable(attendance)
        /\ results.exists /\ ~is_unreadable(results)
        /\ Unusable(last.before.attendance, {"county", "total_voters", "votes_cast"}) =>
               IsSynthetic(attendance) /\ attendance # last.before.attendance
        /\ Unusable(last.before.results, {"county"} \cup Range(c_cols)) =>
               IsSyntheticResults(results) /\ results # last.before.results

\* a run found an attendance table that lacks a required column and left a synthetic one
C29_Witness ==
    /\ Updated
    /\ last.before.attendance.exists
    /\ ~is_unreadable(last.before.attendance)
    /\ Unusable(last.before.attendance, {"county", "total_voters", "votes_cast"})
    /\ IsSynthetic(attendance)
    /\ last.updated_any

(* C30: whatever sequence of process_presence_data,                        *)
(* generate_attendance_data and update_existing_data calls has run, one    *)
(* at a time, all rows of attendance.csv carry one timestamp; every call   *)
(* that changes the table stamps all its rows with the time of that call;  *)
(* and the attendance endpoint reports the first row's timestamp as        *)
(* last_update.                                                            *)
C30_OneTimestamp ==
    /\ [](attendance.exists =>
            \A i \in AttendanceRows :
                attendance.rows[i]["timestamp"] = attendance.rows[1]["timestamp"])
    /\ [][attendance' # attendance =>
            \A i \in 1..Len(attendance'.rows) : attendance'.rows[i]["timestamp"] = now]_vars
    /\ []((last.op = "get_attendance" /\ last.status = 200 /\ attendance.rows # <<>>) =>
            last.last_update = attendance.rows[1]["timestamp"])

\* the endpoint reports the time of an update that ran after the clock had advanced
C30_Witness ==
    /\ last.op = "get_attendance" /\ last.status = 200
    /\ cycles > 0
    /\ now > 0
    /\ Len(attendance.rows) = 2
    /\ attendance.rows[2]["timestamp"] = now
    /\ last.last_update = now

\* this step is an answer of the endpoint to a request
AttendanceRequest == last' # last /\ last'.op = "get_attendance"
ResultsRequest == response' # response /\ response'.route = "results"
DemographicRequest == response' # response /\ response'.route = "demographic"

(* C24: a read endpoint whose table is absent, with no real source file    *)
(* to build it from, answers not found (404) and creates no data file:     *)
(* GET /attendance and GET /demographic without attendance.csv and         *)
(* without a presence file, GET /results without results.csv.              *)
C24_NotFoundWithoutData ==
    /\ [][(AttendanceRequest /\ ~attendance.exists /\ presence.state = "absent") =>
             (last'.status = 404 /\ ~attendance'.exists)]_vars
    /\ [][(DemographicRequest /\ ~attendance.exists /\ presence.state = "absent") =>
             (response'.status = 404 /\ ~attendance'.exists)]_vars
    /\ [][(ResultsRequest /\ ~results.exists) =>
             (response'.status = 404 /\ ~results'.exists)]_vars

\* the cells of a stored row that are derived from optional source columns
DerivedColumns == Range(basic_demographic_columns)

\* row i of attendance.csv has no value in derived column c
Unavailable(i, c) == attendance.rows[i][c] = None

(* C25: a demographic request on the table that process_presence_data      *)
(* saved, where a derived field of a row is null (a gender or age-band     *)
(* total, urban_stations or rural_stations), succeeds and leaves the       *)
(* unavailable field out of that county's entry.                           *)
C25_NullFieldOmitted ==
    [][(DemographicRequest /\ Saved
        /\ \E i \in AttendanceRows : \E c \in DerivedColumns : Unavailable(i, c)) =>
          /\ response'.status = 200
          /\ \A i \in AttendanceRows : \A c \in DerivedColumns :
                Unavailable(i, c) => c \notin DOMAIN response'.counties[i]]_vars

(***************************************************************************)
(* C23: concurrent writers of attendance.csv are not serialized.           *)
(***************************************************************************)
UpdateRequests == {p \in Procs : inflight[p].kind = "update" /\ inflight[p].path = "updated"}
AllAnswered == \A p \in Procs : inflight[p].pc = "done"

\* a request that has started reads the file whatever the other request is doing
NeverWaits ==
    \A p \in Procs : inflight[p].pc = "started" => may_read(p, inflight)

\* the file holds nothing only while a request has it open for writing
EmptyOnlyWhileOpen ==
    is_unreadable(attendance) => \E p \in Procs : inflight[p].pc = "opened"

\* once both requests perturbed the table and are answered, the file is the frame of one of them
LastWriterWins ==
    (AllAnswered /\ UpdateRequests = Procs) =>
        \E p \in Procs : attendance = inflight[p].df

\* C23: writers are not serialized: a request that has started never waits
\* for another one, so both may perturb the table they read before either
\* writes; what is left in the file is the frame of one request alone, and
\* the file is empty while a request has it open.
C23_WritersNotSerialized ==
    /\ NeverWaits
    /\ EmptyOnlyWhileOpen
    /\ LastWriterWins

\* both requests perturbed the same table and are answered; the file holds
\* one cycle of growth, the other is lost
C23_Witness ==
    /\ AllAnswered
    /\ UpdateRequests = Procs
    /\ cycles = 2
    /\ inflight[1].seen = inflight[2].seen
    /\ inflight[1].seen = DefaultAttendance
    /\ \E p \in Procs : attendance = inflight[p].df
    /\ \A i \in 1..Len(attendance.rows) :
          attendance.rows[i].votes_cast.v
              <= inflight[1].seen.rows[i].votes_cast.v
                 + (inflight[1].seen.rows[i].total_voters.v * 20) \div 1000

\* a reader is answered 500 while a request has the file open
C23_TornRead ==
    /\ last.op = "get_attendance"
    /\ last.status = 500
    /\ is_unreadable(attendance)

====
